---- MODULE Spec2Model ----
(***************************************************************************)
(* Point-of-sale front end (src/src/App.tsx) against its relational store. *)
(* One session is one open tab of the App component; the store holds the   *)
(* tables products, transactions and transaction_items.                    *)
(***************************************************************************)
EXTENDS Integers, Sequences, FiniteSets, TLC

\* ------------------------------------------------------------------ bounds
\* largest quantity a cart line is allowed to reach in the model
MaxQty == 2
\* largest stock value an inventory edit or the initial catalogue holds
MaxStock == 2
\* largest number of rows of the transactions table
MaxTxns == 2
\* the larger of the two amounts typed into the "Bayar" field
MaxPaid == 30
\* largest number of fetchProducts calls in flight that inventory edits build up
MaxFetches == 1

Sessions == {1, 2}
ProductIds == {1, 2}

\* stock = -1 means unlimited/service
Unlimited == -1

Max(a, b) == IF a >= b THEN a ELSE b

\* ------------------------------------------------------------- catalogue
\* two rows of the seed catalogue, prices in thousands
SeedName(p) == IF p = 1 THEN "Ceker" ELSE "Seblak Original"
SeedPrice(p) == IF p = 1 THEN 2 ELSE 10

Product(p, stock) == [id |-> p, name |-> SeedName(p), price |-> SeedPrice(p), stock |-> stock]

\* interface CartItem extends Product { quantity }
CartItem(product, q) ==
    [id |-> product.id, name |-> product.name, price |-> product.price,
     stock |-> product.stock, quantity |-> q]

\* ------------------------------------------------------------------ state
VARIABLES
    db_products,            \* table products: id -> row
    db_transactions,        \* table transactions, in insert order; id = position
    db_transaction_items,   \* table transaction_items, in insert order
    db_products_seq,        \* the last id the store has given to a products row
    now,                    \* the store's clock in hours (UTC), stamped on new transactions
    api,                    \* the SQLite server: the request it is handling, its last response
    notices,                \* per session: tables with a change notification under way
    products,               \* per session: useState<Product[]>, the local catalogue
    historyData,            \* per session: useState<any[]>, the local history
    salesData,              \* per session: useState<SalesData[]>
    topProducts,            \* per session: useState<TopProductData[]>
    configError,            \* per session: useState<string | null>, <<>> for null
    cart,                   \* per session: useState<CartItem[]>
    customerName,
    orderType,
    saving,                 \* per session: the product form's submit in flight
    amountPaid,             \* number, or Blank for ''
    paymentMethod,
    isProcessing,
    showSuccess,
    pc,                     \* per session: where handleCheckout is suspended
    co,                     \* per session: what the suspended handleCheckout closed over
    exit,                   \* per session: how the last handleCheckout ended
    calls,                  \* per session: store requests issued by the last handleCheckout
    errlog,                 \* per session: product ids logged by "Failed to update stock"
    fetchingProducts,       \* per session: fetchProducts calls in flight
    fetchingHistory,        \* per session: fetchHistory calls in flight
    fetchingAnalytics,      \* per session: fetchAnalytics calls in flight
    event                   \* per session: the last handler the user invoked

vars == <<db_products, db_transactions, db_transaction_items, db_products_seq, now, api,
          notices, products, historyData, salesData, topProducts, configError,
          cart, customerName, orderType, amountPaid, paymentMethod, saving, isProcessing,
          showSuccess, pc, co, exit, calls, errlog, fetchingProducts, fetchingHistory,
          fetchingAnalytics, event>>

dbVars == <<db_products, db_transactions, db_transaction_items>>
storeVars == <<db_products_seq, now, api>>
viewVars == <<products, historyData, salesData, topProducts, configError>>
formVars == <<customerName, orderType, amountPaid, paymentMethod, saving>>
fetches == <<fetchingProducts, fetchingHistory, fetchingAnalytics>>
checkoutVars == <<pc, co, exit, calls, errlog, isProcessing, showSuccess>>

\* the empty "Bayar" field; a typed amount n is <<n>>
Blank == <<>>
NoAlert == <<>>
\* configError === null; a message msg is <<msg>>
NoConfigError == <<>>

\* ------------------------------------------------------------------- cart
\* cart.reduce((sum, item) => sum + (item.price * item.quantity), 0)
RECURSIVE Reduce(_, _, _)
Reduce(items, i, sum) ==
    IF i > Len(items) THEN sum
    ELSE Reduce(items, i + 1, sum + (items[i].price * items[i].quantity))

cartTotalNoQuantity(items) ==
    Reduce([i \in 1..Len(items) |-> [items[i] EXCEPT !.quantity = 1]], 1, 0)

cartTotal(items) == Reduce(items, 1, 0)

InCart(items, p) == \E i \in 1..Len(items) : items[i].id = p

OutOfStockBelowZero(product) == product.stock # Unlimited /\ product.stock < 0

\* product.stock !== -1 && product.stock <= 0
OutOfStock(product) == product.stock # Unlimited /\ product.stock <= 0

\* the setCart updater of addToCart
AddUpdater(prev, product) ==
    IF InCart(prev, product.id)
    THEN [i \in 1..Len(prev) |->
            IF prev[i].id = product.id
            THEN [prev[i] EXCEPT !.quantity = prev[i].quantity + 1]
            ELSE prev[i]]
    ELSE Append(prev, CartItem(product, 1))

NewQtyNoFloor(quantity, delta) == quantity + delta

\* Math.max(1, item.quantity + delta)
NewQty(quantity, delta) == Max(1, quantity + delta)

\* delta > 0 && item.stock !== -1 && newQty > item.stock
OverCeiling(item, delta, newQty) ==
    delta > 0 /\ item.stock # Unlimited /\ newQty > item.stock

\* the setCart updater of updateQuantity
QuantityUpdater(prev, productId, delta) ==
    [i \in 1..Len(prev) |->
        IF prev[i].id = productId
        THEN IF OverCeiling(prev[i], delta, NewQty(prev[i].quantity, delta))
             THEN prev[i]
             ELSE [prev[i] EXCEPT !.quantity = NewQty(prev[i].quantity, delta)]
        ELSE prev[i]]

\* prev.filter(item => item.id !== productId)
RemoveUpdater(prev, productId) == SelectSeq(prev, LAMBDA item : item.id # productId)

QtyBounded(items) == \A i \in 1..Len(items) : items[i].quantity <= MaxQty

\* click on a product card: returns at once for a product that is out of stock
addToCart(s, p) ==
    /\ p \in DOMAIN products[s]
    /\ event' = [event EXCEPT ![s] = <<"addToCart", p, 0>>]
    /\ IF OutOfStock(products[s][p])
       THEN UNCHANGED cart
       ELSE /\ QtyBounded(AddUpdater(cart[s], products[s][p]))
            /\ cart' = [cart EXCEPT ![s] = AddUpdater(cart[s], products[s][p])]
    /\ UNCHANGED <<dbVars, storeVars, notices, viewVars, formVars, checkoutVars, fetches>>

\* click on the trash button of a cart line
removeFromCart(s, p) ==
    /\ InCart(cart[s], p)
    /\ event' = [event EXCEPT ![s] = <<"removeFromCart", p, 0>>]
    /\ cart' = [cart EXCEPT ![s] = RemoveUpdater(cart[s], p)]
    /\ UNCHANGED <<dbVars, storeVars, notices, viewVars, formVars, checkoutVars, fetches>>

\* the minus and the plus button pass -1 and 1; the function takes any delta
Deltas == {-2, -1, 1, 2}

\* click on the minus / plus button of a cart line
updateQuantity(s, p, delta) ==
    /\ InCart(cart[s], p)
    /\ event' = [event EXCEPT ![s] = <<"updateQuantity", p, delta>>]
    /\ QtyBounded(QuantityUpdater(cart[s], p, delta))
    /\ cart' = [cart EXCEPT ![s] = QuantityUpdater(cart[s], p, delta)]
    /\ UNCHANGED <<dbVars, storeVars, notices, viewVars, formVars, checkoutVars, fetches>>

\* ---------------------------------------------------------------- re-reads
\* a re-read in flight: sent (read = FALSE), then holding what the store returned
Sent == [read |-> FALSE, data |-> <<>>]
Read(rows) == [read |-> TRUE, data |-> rows]

\* .from('transactions').select('*, items:transaction_items(*)').order('timestamp', desc)
HistoryRows ==
    [i \in 1..Len(db_transactions) |->
        LET t == db_transactions[Len(db_transactions) + 1 - i]
        IN  [t |-> t,
             items |-> SelectSeq(db_transaction_items,
                                 LAMBDA it : it.transaction_id = t.id)]]

\* the store answers the select of fetchProducts
fetchProductsRead(s) ==
    /\ Sent \in fetchingProducts[s]
    /\ fetchingProducts' = [fetchingProducts EXCEPT ![s] = (@ \ {Sent}) \cup {Read(db_products)}]
    /\ UNCHANGED <<dbVars, storeVars, notices, viewVars, cart, formVars, checkoutVars,
                   fetchingHistory, fetchingAnalytics, event>>

\* fetchProducts resumes after its await: setProducts(data); setConfigError(null)
fetchProductsApply(s) ==
    \E f \in fetchingProducts[s] :
        /\ f.read
        /\ products' = [products EXCEPT ![s] = f.data]
        /\ configError' = [configError EXCEPT ![s] = NoConfigError]
        /\ fetchingProducts' = [fetchingProducts EXCEPT ![s] = @ \ {f}]
        /\ UNCHANGED <<dbVars, storeVars, notices, historyData, salesData, topProducts, cart,
                       formVars, checkoutVars, fetchingHistory, fetchingAnalytics, event>>

\* the store answers the select of fetchHistory
fetchHistoryRead(s) ==
    /\ Sent \in fetchingHistory[s]
    /\ fetchingHistory' = [fetchingHistory EXCEPT ![s] = (@ \ {Sent}) \cup {Read(HistoryRows)}]
    /\ UNCHANGED <<dbVars, storeVars, notices, viewVars, cart, formVars, checkoutVars,
                   fetchingProducts, fetchingAnalytics, event>>

\* fetchHistory resumes after its await: setHistoryData(transactions)
fetchHistoryApply(s) ==
    \E f \in fetchingHistory[s] :
        /\ f.read
        /\ historyData' = [historyData EXCEPT ![s] = f.data]
        /\ fetchingHistory' = [fetchingHistory EXCEPT ![s] = @ \ {f}]
        /\ UNCHANGED <<dbVars, storeVars, notices, products, salesData, topProducts,
                       configError, cart,
                       formVars, checkoutVars, fetchingProducts, fetchingAnalytics, event>>

\* ----------------------------------------------------------- credentials
\* the message getSupabase throws when VITE_SUPABASE_URL or VITE_SUPABASE_ANON_KEY is unset
CredentialsMissing ==
    "Supabase credentials missing. Please set VITE_SUPABASE_URL and VITE_SUPABASE_ANON_KEY in your environment variables."

\* the message of the error the store answers to a key it does not accept
InvalidApiKey == "Invalid API key"

\* msg.includes(part), for the messages and the parts at hand
Includes(msg, part) ==
    \/ msg = part
    \/ msg = CredentialsMissing /\ part \in {"Supabase credentials", "VITE_SUPABASE_URL"}

\* msg.includes('Supabase credentials') || msg.includes('VITE_SUPABASE_URL')
IsConfigMessage(msg) ==
    Includes(msg, "Supabase credentials") \/ Includes(msg, "VITE_SUPABASE_URL")

\* the catch block of fetchProducts
fetchProductsCatch(s, msg) ==
    configError' = [configError EXCEPT ![s] = IF IsConfigMessage(msg) THEN <<msg>> ELSE @]

\* the select of fetchProducts is answered with an error: if (error) throw error
fetchProductsFails(s, e) ==
    /\ Sent \in fetchingProducts[s]
    /\ fetchingProducts' = [fetchingProducts EXCEPT ![s] = @ \ {Sent}]
    /\ fetchProductsCatch(s, e)
    /\ UNCHANGED <<dbVars, storeVars, notices, products, historyData, salesData, topProducts,
                   cart, formVars, checkoutVars, fetchingHistory, fetchingAnalytics, event>>

\* the select of fetchHistory is answered with an error: the catch block logs it
fetchHistoryFails(s, e) ==
    /\ Sent \in fetchingHistory[s]
    /\ fetchingHistory' = [fetchingHistory EXCEPT ![s] = @ \ {Sent}]
    /\ UNCHANGED <<dbVars, storeVars, notices, viewVars, cart, formVars, checkoutVars,
                   fetchingProducts, fetchingAnalytics, event>>

\* the first render: the effect calls fetchProducts() (the tab is 'pos'); with the
\* credentials unset getSupabase throws inside the try block before anything is sent
mount(s, configured) ==
    /\ event[s] = <<"none", 0, 0>>
    /\ event' = [event EXCEPT ![s] = <<"mount", 0, 0>>]
    /\ IF configured
       THEN /\ fetchingProducts' = [fetchingProducts EXCEPT ![s] = @ \cup {Sent}]
            /\ UNCHANGED configError
       ELSE /\ fetchProductsCatch(s, CredentialsMissing)
            /\ UNCHANGED fetchingProducts
    /\ UNCHANGED <<dbVars, storeVars, notices, products, historyData, salesData, topProducts,
                   cart, formVars, checkoutVars, fetchingHistory, fetchingAnalytics>>

\* -------------------------------------------------------------- analytics
Min(a, b) == IF a <= b THEN a ELSE b

StableSortTiesReversed(seq, order) ==
    LET rank(i) == 1 + Cardinality({j \in 1..Len(seq) :
                        \/ order[j] < order[i]
                        \/ (order[j] = order[i] /\ j > i)})
    IN  [r \in 1..Len(seq) |-> seq[CHOOSE i \in 1..Len(seq) : rank(i) = r]]

\* Array.prototype.sort with a comparator (a, b) => order(a) - order(b), order[i] being
\* the number the comparator takes from seq[i]: stable, elements that compare equal
\* keep their order
StableSort(seq, order) ==
    LET rank(i) == 1 + Cardinality({j \in 1..Len(seq) :
                        \/ order[j] < order[i]
                        \/ (order[j] = order[i] /\ j < i)})
    IN  [r \in 1..Len(seq) |-> seq[CHOOSE i \in 1..Len(seq) : rank(i) = r]]

\* the number a property key stands for when it is a canonical array index, else -1
ArrayIndex(key) == IF key = "578" THEN 578 ELSE -1

\* Object.entries: the keys that are array indices first, in ascending numeric order,
\* then the other keys in the order in which they were created
ObjectEntries(acc) ==
    LET indices == SelectSeq(acc, LAMBDA e : ArrayIndex(e.key) >= 0)
    IN  StableSort(indices, [i \in 1..Len(indices) |-> ArrayIndex(indices[i].key)])
        \o SelectSeq(acc, LAMBDA e : ArrayIndex(e.key) < 0)

\* rows.reduce((acc, curr) => { acc[key] = (acc[key] || 0) + value; return acc }, {}):
\* the properties of acc in the order of their creation
RECURSIVE GroupBy(_, _, _)
GroupBy(rows, i, acc) ==
    IF i > Len(rows) THEN acc
    ELSE LET had == {k \in 1..Len(acc) : acc[k].key = rows[i].key}
         IN  GroupBy(rows, i + 1,
                IF had = {}
                THEN Append(acc, [key |-> rows[i].key, value |-> rows[i].value])
                ELSE [k \in 1..Len(acc) |->
                        IF k \in had
                        THEN [acc[k] EXCEPT !.value = @ + rows[i].value]
                        ELSE acc[k]])

\* new Date(curr.timestamp).toISOString().split('T')[0]: the UTC day of a timestamp
DateOf(timestamp) == timestamp \div 24

\* the sales series keeps the last 30 dates
SalesDays == 30

\* Object.entries(groupedSales) ... .sort((a, b) => a.date.localeCompare(b.date)).slice(-30);
\* no date string is an array index, so the entries come in the order of their creation
FormattedSales(sales) ==
    LET grouped == GroupBy([i \in 1..Len(sales) |->
                                [key |-> DateOf(sales[i].timestamp),
                                 value |-> sales[i].total_amount]], 1, <<>>)
        entries == [i \in 1..Len(grouped) |->
                        [date |-> grouped[i].key, total |-> grouped[i].value]]
        sorted == StableSort(entries, [i \in 1..Len(entries) |-> entries[i].date])
    IN  SubSeq(sorted, Max(1, Len(sorted) - SalesDays + 1), Len(sorted))

\* the top-products view keeps the first 10 names
TopCount == 10

\* .sort((a, b) => b.total_quantity - a.total_quantity).slice(0, 10)
FormattedProducts(items) ==
    LET grouped == GroupBy([i \in 1..Len(items) |->
                                [key |-> items[i].product_name,
                                 value |-> items[i].quantity]], 1, <<>>)
        entries == ObjectEntries(grouped)
        sorted == StableSort([i \in 1..Len(entries) |->
                                [name |-> entries[i].key,
                                 total_quantity |-> entries[i].value]],
                             [i \in 1..Len(entries) |-> 0 - entries[i].value])
    IN  SubSeq(sorted, 1, Min(TopCount, Len(sorted)))

\* a fetchAnalytics call in flight: at its first await (sales) or its second (items)
Asked(stage) == [stage |-> stage, read |-> FALSE, data |-> <<>>]
Answered(stage, rows) == [stage |-> stage, read |-> TRUE, data |-> rows]

\* .from('transactions').select('timestamp, total_amount')
SalesRows ==
    [i \in 1..Len(db_transactions) |->
        [timestamp |-> db_transactions[i].timestamp,
         total_amount |-> db_transactions[i].total_amount]]

\* .from('transaction_items').select('product_name, quantity')
ItemRows ==
    [i \in 1..Len(db_transaction_items) |->
        [product_name |-> db_transaction_items[i].product_name,
         quantity |-> db_transaction_items[i].quantity]]

\* the store answers the first or the second select of fetchAnalytics
fetchAnalyticsRead(s) ==
    \E f \in fetchingAnalytics[s] :
        /\ ~f.read
        /\ fetchingAnalytics' = [fetchingAnalytics EXCEPT ![s] =
                (@ \ {f}) \cup {Answered(f.stage, IF f.stage = "sales" THEN SalesRows
                                                  ELSE ItemRows)}]
        /\ UNCHANGED <<dbVars, storeVars, notices, viewVars, cart, formVars, checkoutVars,
                       fetchingProducts, fetchingHistory, event>>

\* fetchAnalytics resumes after its first await: setSalesData, then the second select
fetchAnalyticsSales(s) ==
    \E f \in fetchingAnalytics[s] :
        /\ f.read /\ f.stage = "sales"
        /\ salesData' = [salesData EXCEPT ![s] = FormattedSales(f.data)]
        /\ fetchingAnalytics' = [fetchingAnalytics EXCEPT ![s] = (@ \ {f}) \cup {Asked("items")}]
        /\ UNCHANGED <<dbVars, storeVars, notices, products, historyData, topProducts,
                       configError, cart,
                       formVars, checkoutVars, fetchingProducts, fetchingHistory, event>>

\* fetchAnalytics resumes after its second await: setTopProducts
fetchAnalyticsItems(s) ==
    \E f \in fetchingAnalytics[s] :
        /\ f.read /\ f.stage = "items"
        /\ topProducts' = [topProducts EXCEPT ![s] = FormattedProducts(f.data)]
        /\ fetchingAnalytics' = [fetchingAnalytics EXCEPT ![s] = @ \ {f}]
        /\ UNCHANGED <<dbVars, storeVars, notices, products, historyData, salesData,
                       configError, cart,
                       formVars, checkoutVars, fetchingProducts, fetchingHistory, event>>

\* a select of fetchAnalytics is answered with an error: the catch block logs it
fetchAnalyticsFails(s, e) ==
    \E f \in fetchingAnalytics[s] :
        /\ ~f.read
        /\ fetchingAnalytics' = [fetchingAnalytics EXCEPT ![s] = @ \ {f}]
        /\ UNCHANGED <<dbVars, storeVars, notices, viewVars, cart, formVars, checkoutVars,
                       fetchingProducts, fetchingHistory, event>>

\* --------------------------------------------------------------- realtime
\* the store reports a change of a table to every subscribed session
Notify(table) == notices' = [s \in Sessions |-> notices[s] \cup {table}]

\* largest number of re-reads of one kind in flight that notifications build up
MaxReReads == 2

\* .on('postgres_changes', { table: 'products' }, () => { fetchProducts() });
\* the same notification may be delivered again later (again = TRUE)
onProductsChange(s, again) ==
    /\ "products" \in notices[s]
    /\ Cardinality(fetchingProducts[s] \cup {Sent}) <= MaxReReads
    /\ notices' = [notices EXCEPT ![s] = IF again THEN @ ELSE @ \ {"products"}]
    /\ fetchingProducts' = [fetchingProducts EXCEPT ![s] = @ \cup {Sent}]
    /\ UNCHANGED <<dbVars, storeVars, viewVars, cart, formVars, checkoutVars,
                   fetchingHistory, fetchingAnalytics, event>>

onTransactionsChangeHistoryOnly(s, again) ==
    /\ "transactions" \in notices[s]
    /\ Cardinality(fetchingHistory[s] \cup {Sent}) <= MaxReReads
    /\ Cardinality(fetchingAnalytics[s] \cup {Asked("sales")}) <= MaxReReads
    /\ notices' = [notices EXCEPT ![s] = IF again THEN @ ELSE @ \ {"transactions"}]
    /\ fetchingHistory' = [fetchingHistory EXCEPT ![s] = @ \cup {Sent}]
    /\ UNCHANGED <<dbVars, storeVars, viewVars, cart, formVars, checkoutVars,
                   fetchingProducts, fetchingAnalytics, event>>

\* .on('postgres_changes', { table: 'transactions' }, () => { fetchHistory(); fetchAnalytics() })
onTransactionsChange(s, again) ==
    /\ "transactions" \in notices[s]
    /\ Cardinality(fetchingHistory[s] \cup {Sent}) <= MaxReReads
    /\ Cardinality(fetchingAnalytics[s] \cup {Asked("sales")}) <= MaxReReads
    /\ notices' = [notices EXCEPT ![s] = IF again THEN @ ELSE @ \ {"transactions"}]
    /\ fetchingHistory' = [fetchingHistory EXCEPT ![s] = @ \cup {Sent}]
    /\ fetchingAnalytics' = [fetchingAnalytics EXCEPT ![s] = @ \cup {Asked("sales")}]
    /\ UNCHANGED <<dbVars, storeVars, viewVars, cart, formVars, checkoutVars,
                   fetchingProducts, event>>

\* -------------------------------------------------------------- inventory
\* the values the stock field of the edit form is given
StockInputs == Unlimited..MaxStock

\* failures a store request can end in
StoreErrors == {"Failed to fetch", "permission denied"}

\* largest id the store gives to a products row
MaxProducts == 3

\* the rows of f without the row of id p
Without(f, p) == [q \in DOMAIN f \ {p} |-> f[q]]

\* the rows of f and the row r
With(f, r) == [q \in DOMAIN f \cup {r.id} |-> IF q = r.id THEN r ELSE f[q]]

\* the product form has no submit in flight; a submitted one holds the operation and the row
NoSave == <<>>
Saving(op, row) == <<[op |-> op, row |-> row]>>

handleUpdateProductAnytime(s, edited) ==
    /\ edited.id \in DOMAIN products[s]
    /\ products[s][edited.id].stock = Unlimited => edited.stock = Unlimited
    /\ Cardinality(fetchingProducts[s]) < MaxFetches
    /\ event' = [event EXCEPT ![s] = <<"handleUpdateProduct", edited.id, edited.stock>>]
    /\ isProcessing' = [isProcessing EXCEPT ![s] = TRUE]
    /\ saving' = [saving EXCEPT ![s] = Saving("update", edited)]
    /\ UNCHANGED <<dbVars, storeVars, notices, viewVars, cart, customerName, orderType,
                   amountPaid, paymentMethod, pc, co, exit, calls, errlog, showSuccess,
                   fetches>>

\* submit of the edit form holding the row edited (a row of the local catalogue with
\* fields changed); the stock field is disabled for a row that is unlimited, the submit
\* button while isProcessing: setIsProcessing(true), then the update is sent
handleUpdateProduct(s, edited) ==
    /\ ~isProcessing[s]
    /\ edited.id \in DOMAIN products[s]
    /\ products[s][edited.id].stock = Unlimited => edited.stock = Unlimited
    /\ Cardinality(fetchingProducts[s]) < MaxFetches
    /\ event' = [event EXCEPT ![s] = <<"handleUpdateProduct", edited.id, edited.stock>>]
    /\ isProcessing' = [isProcessing EXCEPT ![s] = TRUE]
    /\ saving' = [saving EXCEPT ![s] = Saving("update", edited)]
    /\ UNCHANGED <<dbVars, storeVars, notices, viewVars, cart, customerName, orderType,
                   amountPaid, paymentMethod, pc, co, exit, calls, errlog, showSuccess,
                   fetches>>

\* what the end of a product submit leaves alone
SubmitFrame ==
    UNCHANGED <<db_transactions, now, api, viewVars, cart, customerName, orderType,
                amountPaid, paymentMethod, pc, co, exit, calls, errlog, showSuccess,
                fetchingHistory, fetchingAnalytics, event>>

updateProductReturnsRewritesItems(s, res) ==
    /\ saving[s] # NoSave /\ saving[s][1].op = "update"
    /\ LET edited == saving[s][1].row
       IN  IF res = "ok"
           THEN /\ IF edited.id \in DOMAIN db_products
                   THEN /\ db_products' = [db_products EXCEPT ![edited.id] = edited]
                        /\ Notify("products")
                   ELSE UNCHANGED <<db_products, notices>>
                /\ db_transaction_items' =
                        [i \in 1..Len(db_transaction_items) |->
                            IF db_transaction_items[i].product_id = edited.id
                            THEN [db_transaction_items[i] EXCEPT !.product_name = edited.name,
                                                                 !.price = edited.price]
                            ELSE db_transaction_items[i]]
                /\ fetchingProducts' = [fetchingProducts EXCEPT ![s] = @ \cup {Sent}]
           ELSE UNCHANGED <<db_products, db_transaction_items, notices, fetchingProducts>>
    /\ isProcessing' = [isProcessing EXCEPT ![s] = FALSE]
    /\ saving' = [saving EXCEPT ![s] = NoSave]
    /\ UNCHANGED db_products_seq
    /\ SubmitFrame

\* the update of handleUpdateProduct returns: fetchProducts() or the alert, then finally
updateProductReturns(s, res) ==
    /\ saving[s] # NoSave /\ saving[s][1].op = "update"
    /\ LET edited == saving[s][1].row
       IN  IF res = "ok"
           THEN /\ IF edited.id \in DOMAIN db_products
                   THEN /\ db_products' = [db_products EXCEPT ![edited.id] = edited]
                        /\ Notify("products")
                   ELSE UNCHANGED <<db_products, notices>>
                /\ fetchingProducts' = [fetchingProducts EXCEPT ![s] = @ \cup {Sent}]
           ELSE UNCHANGED <<db_products, notices, fetchingProducts>>
    /\ isProcessing' = [isProcessing EXCEPT ![s] = FALSE]
    /\ saving' = [saving EXCEPT ![s] = NoSave]
    /\ UNCHANGED <<db_transaction_items, db_products_seq>>
    /\ SubmitFrame

\* submit of the add form holding newProduct: setIsProcessing(true), the insert is sent
handleCreateProduct(s, newProduct) ==
    /\ ~isProcessing[s]
    /\ db_products_seq < MaxProducts
    /\ Cardinality(fetchingProducts[s]) < MaxFetches
    /\ event' = [event EXCEPT ![s] = <<"handleCreateProduct", 0, newProduct.stock>>]
    /\ isProcessing' = [isProcessing EXCEPT ![s] = TRUE]
    /\ saving' = [saving EXCEPT ![s] = Saving("create", newProduct)]
    /\ UNCHANGED <<dbVars, storeVars, notices, viewVars, cart, customerName, orderType,
                   amountPaid, paymentMethod, pc, co, exit, calls, errlog, showSuccess,
                   fetches>>

\* the insert of handleCreateProduct returns: the store has given the row its id
createProductReturns(s, res) ==
    /\ saving[s] # NoSave /\ saving[s][1].op = "create"
    /\ LET newProduct == saving[s][1].row
       IN  IF res = "ok" /\ db_products_seq < MaxProducts
           THEN /\ db_products_seq' = db_products_seq + 1
                /\ db_products' = With(db_products,
                                       [id |-> db_products_seq + 1, name |-> newProduct.name,
                                        price |-> newProduct.price, stock |-> newProduct.stock])
                /\ Notify("products")
                /\ fetchingProducts' = [fetchingProducts EXCEPT ![s] = @ \cup {Sent}]
           ELSE /\ res # "ok"
                /\ UNCHANGED <<db_products, db_products_seq, notices, fetchingProducts>>
    /\ isProcessing' = [isProcessing EXCEPT ![s] = FALSE]
    /\ saving' = [saving EXCEPT ![s] = NoSave]
    /\ UNCHANGED db_transaction_items
    /\ SubmitFrame

handleDeleteProductCascade(s, p, ok) ==
    /\ p \in DOMAIN products[s]
    /\ Cardinality(fetchingProducts[s]) < MaxFetches
    /\ event' = [event EXCEPT ![s] = <<"handleDeleteProduct", p, 0>>]
    /\ IF ok
       THEN /\ IF p \in DOMAIN db_products
               THEN /\ db_products' = Without(db_products, p)
                    /\ Notify("products")
               ELSE UNCHANGED <<db_products, notices>>
            /\ db_transaction_items' =
                    SelectSeq(db_transaction_items, LAMBDA it : it.product_id # p)
            /\ fetchingProducts' = [fetchingProducts EXCEPT ![s] = @ \cup {Sent}]
       ELSE UNCHANGED <<db_products, db_transaction_items, notices, fetchingProducts>>
    /\ UNCHANGED <<db_transactions, storeVars, viewVars, cart, formVars,
                   checkoutVars, fetchingHistory, fetchingAnalytics>>

\* click on the delete button of the catalogue row p, the confirm dialog accepted
handleDeleteProduct(s, p, ok) ==
    /\ p \in DOMAIN products[s]
    /\ Cardinality(fetchingProducts[s]) < MaxFetches
    /\ event' = [event EXCEPT ![s] = <<"handleDeleteProduct", p, 0>>]
    /\ IF ok
       THEN /\ IF p \in DOMAIN db_products
               THEN /\ db_products' = Without(db_products, p)
                    /\ Notify("products")
               ELSE UNCHANGED <<db_products, notices>>
            /\ fetchingProducts' = [fetchingProducts EXCEPT ![s] = @ \cup {Sent}]
       ELSE UNCHANGED <<db_products, notices, fetchingProducts>>
    /\ UNCHANGED <<db_transactions, db_transaction_items, storeVars, viewVars, cart, formVars,
                   checkoutVars, fetchingHistory, fetchingAnalytics>>

\* ------------------------------------------------------------------- form
\* typing into the "Nama Pemesan" field: setCustomerName(e.target.value)
setCustomerName(s, name) ==
    /\ customerName[s] # name
    /\ customerName' = [customerName EXCEPT ![s] = name]
    /\ event' = [event EXCEPT ![s] = <<"setCustomerName", 0, 0>>]
    /\ UNCHANGED <<dbVars, storeVars, notices, viewVars, cart, orderType, amountPaid,
                   paymentMethod, saving, checkoutVars, fetches>>

\* choosing in the "Metode" select: setPaymentMethod(value), and for a method other than
\* Cash setAmountPaid(cartTotal) with the cart total of this render
setPaymentMethod(s, method) ==
    /\ paymentMethod[s] # method
    /\ paymentMethod' = [paymentMethod EXCEPT ![s] = method]
    /\ amountPaid' = [amountPaid EXCEPT ![s] =
                        IF method # "Cash" THEN <<cartTotal(cart[s])>> ELSE @]
    /\ event' = [event EXCEPT ![s] = <<"setPaymentMethod", 0, 0>>]
    /\ UNCHANGED <<dbVars, storeVars, notices, viewVars, cart, customerName, orderType,
                   saving, checkoutVars, fetches>>

\* typing into the "Bayar" field, which is on the screen while the method is Cash:
\* setAmountPaid(value === '' ? '' : parseInt(value))
setAmountPaid(s, amount) ==
    /\ paymentMethod[s] = "Cash"
    /\ amountPaid[s] # amount
    /\ amountPaid' = [amountPaid EXCEPT ![s] = amount]
    /\ event' = [event EXCEPT ![s] = <<"setAmountPaid", 0, 0>>]
    /\ UNCHANGED <<dbVars, storeVars, notices, viewVars, cart, customerName, orderType,
                   paymentMethod, saving, checkoutVars, fetches>>

\* --------------------------------------------------------------- checkout
\* customerName.trim()
Trim(name) == IF name = " " THEN "" ELSE name

\* typeof amountPaid === 'number' ? amountPaid : total
Paid(amount, total) == IF amount # Blank THEN amount[1] ELSE total

ChangeAmountNoFloor(paid, total) == paid - total

\* Math.max(0, paid - total)
ChangeAmount(paid, total) == Max(0, paid - total)

PrecheckNoPayment(items, name, method, paid, total) ==
    IF items = <<>> THEN "return560"
    ELSE IF Trim(name) = "" THEN "return563"
    ELSE "proceed"

\* the three early returns of handleCheckout
Precheck(items, name, method, paid, total) ==
    IF items = <<>> THEN "return560"
    ELSE IF Trim(name) = "" THEN "return563"
    ELSE IF method = "Cash" /\ paid < total THEN "return571"
    ELSE "proceed"

AlertOf(at) ==
    IF at = "return563" THEN <<"Mohon isi nama pemesan!">>
    ELSE IF at = "return571" THEN <<"Jumlah bayar kurang!">>
    ELSE NoAlert

NoClosure ==
    [cart |-> <<>>, total |-> 0, paid |-> 0, customerName |-> "", orderType |-> "Dine In",
     paymentMethod |-> "Cash", txid |-> 0, idx |-> 0]

\* the row of step 1; the store assigns the id and the timestamp
TransactionRow(id, c) ==
    [id |-> id,
     total_amount |-> c.total,
     customer_name |-> c.customerName,
     order_type |-> c.orderType,
     amount_paid |-> c.paid,
     change_amount |-> ChangeAmount(c.paid, c.total),
     payment_method |-> c.paymentMethod,
     timestamp |-> now]

\* cart.map(item => ({transaction_id, product_id, product_name, quantity, price}))
TransactionItems(items, txid) ==
    [i \in 1..Len(items) |->
        [transaction_id |-> txid,
         product_id |-> items[i].id,
         product_name |-> items[i].name,
         quantity |-> items[i].quantity,
         price |-> items[i].price]]

\* for (const item of cart) if (item.stock !== -1): the next line after i to update, or 0
NextStockLine(items, i) ==
    LET later == {j \in (i + 1)..Len(items) : items[j].stock # Unlimited}
    IN  IF later = {} THEN 0 ELSE CHOOSE j \in later : \A k \in later : j <= k

\* click on "Bayar Sekarang": the checks, then step 1 is sent
handleCheckout(s) ==
    /\ ~isProcessing[s]
    /\ event' = [event EXCEPT ![s] = <<"handleCheckout", 0, 0>>]
    /\ LET total == cartTotal(cart[s])
           paid == Paid(amountPaid[s], total)
           at == Precheck(cart[s], customerName[s], paymentMethod[s], paid, total)
       IN  IF at # "proceed"
           THEN /\ exit' = [exit EXCEPT ![s] = [at |-> at, alert |-> AlertOf(at)]]
                /\ calls' = [calls EXCEPT ![s] = 0]
                /\ UNCHANGED <<pc, co, isProcessing>>
           ELSE /\ isProcessing' = [isProcessing EXCEPT ![s] = TRUE]
                /\ pc' = [pc EXCEPT ![s] = "insertTransaction"]
                /\ co' = [co EXCEPT ![s] =
                        [cart |-> cart[s], total |-> total, paid |-> paid,
                         customerName |-> customerName[s], orderType |-> orderType[s],
                         paymentMethod |-> paymentMethod[s], txid |-> 0, idx |-> 0]]
                /\ calls' = [calls EXCEPT ![s] = 1]
                /\ exit' = [exit EXCEPT ![s] = [at |-> "running", alert |-> NoAlert]]
    /\ UNCHANGED <<dbVars, storeVars, notices, viewVars, cart, formVars, errlog, showSuccess,
                   fetches>>

ThrowNoFinally(s, e) ==
    /\ exit' = [exit EXCEPT ![s] = [at |-> "catch630", alert |-> <<"Checkout gagal: ", e>>]]
    /\ UNCHANGED isProcessing
    /\ pc' = [pc EXCEPT ![s] = "idle"]
    /\ co' = [co EXCEPT ![s] = NoClosure]

\* throw -> catch: alert("Checkout gagal: " + message) -> finally
Throw(s, e) ==
    /\ exit' = [exit EXCEPT ![s] = [at |-> "catch630", alert |-> <<"Checkout gagal: ", e>>]]
    /\ isProcessing' = [isProcessing EXCEPT ![s] = FALSE]
    /\ pc' = [pc EXCEPT ![s] = "idle"]
    /\ co' = [co EXCEPT ![s] = NoClosure]

FinishNoHistory(s) ==
    /\ cart' = [cart EXCEPT ![s] = <<>>]
    /\ customerName' = [customerName EXCEPT ![s] = ""]
    /\ orderType' = [orderType EXCEPT ![s] = "Dine In"]
    /\ amountPaid' = [amountPaid EXCEPT ![s] = Blank]
    /\ paymentMethod' = [paymentMethod EXCEPT ![s] = "Cash"]
    /\ showSuccess' = [showSuccess EXCEPT ![s] = TRUE]
    /\ fetchingProducts' = [fetchingProducts EXCEPT ![s] = @ \cup {Sent}]
    /\ exit' = [exit EXCEPT ![s] = [at |-> "success627", alert |-> NoAlert]]
    /\ isProcessing' = [isProcessing EXCEPT ![s] = FALSE]
    /\ pc' = [pc EXCEPT ![s] = "idle"]
    /\ co' = [co EXCEPT ![s] = NoClosure]
    /\ UNCHANGED <<calls, saving, fetchingHistory, fetchingAnalytics>>

\* the end of the try block, lines 619-627
Finish(s) ==
    /\ cart' = [cart EXCEPT ![s] = <<>>]
    /\ customerName' = [customerName EXCEPT ![s] = ""]
    /\ orderType' = [orderType EXCEPT ![s] = "Dine In"]
    /\ amountPaid' = [amountPaid EXCEPT ![s] = Blank]
    /\ paymentMethod' = [paymentMethod EXCEPT ![s] = "Cash"]
    /\ showSuccess' = [showSuccess EXCEPT ![s] = TRUE]
    /\ fetchingProducts' = [fetchingProducts EXCEPT ![s] = @ \cup {Sent}]
    /\ fetchingHistory' = [fetchingHistory EXCEPT ![s] = @ \cup {Sent}]
    /\ exit' = [exit EXCEPT ![s] = [at |-> "success627", alert |-> NoAlert]]
    /\ isProcessing' = [isProcessing EXCEPT ![s] = FALSE]
    /\ pc' = [pc EXCEPT ![s] = "idle"]
    /\ co' = [co EXCEPT ![s] = NoClosure]
    /\ UNCHANGED <<calls, saving, fetchingAnalytics>>

\* step 3 goes on after line i: sends the next stock update, or ends the try block
StockLoop(s, i) ==
    LET j == NextStockLine(co[s].cart, i)
    IN  IF j = 0
        THEN Finish(s)
        ELSE /\ pc' = [pc EXCEPT ![s] = "updateStock"]
             /\ co' = [co EXCEPT ![s].idx = j]
             /\ calls' = [calls EXCEPT ![s] = @ + 1]
             /\ UNCHANGED <<cart, formVars, showSuccess, fetches, exit, isProcessing>>

transactionInsertFailedIgnored(s, e) ==
    /\ pc' = [pc EXCEPT ![s] = "insertItems"]
    /\ calls' = [calls EXCEPT ![s] = @ + 1]
    /\ UNCHANGED <<db_transactions, notices, co, exit, isProcessing>>

\* if (tError) throw tError
transactionInsertFailed(s, e) ==
    /\ Throw(s, e)
    /\ UNCHANGED <<db_transactions, notices, calls>>

\* step 1 returns: the store has inserted the row, or has failed
insertTransactionReturns(s, res) ==
    /\ pc[s] = "insertTransaction"
    /\ IF res = "ok"
       THEN /\ Len(db_transactions) < MaxTxns
            /\ db_transactions' =
                    Append(db_transactions, TransactionRow(Len(db_transactions) + 1, co[s]))
            /\ Notify("transactions")
            /\ co' = [co EXCEPT ![s].txid = Len(db_transactions) + 1]
            /\ pc' = [pc EXCEPT ![s] = "insertItems"]
            /\ calls' = [calls EXCEPT ![s] = @ + 1]
            /\ UNCHANGED <<exit, isProcessing>>
       ELSE transactionInsertFailed(s, res)
    /\ UNCHANGED <<db_products, db_transaction_items, storeVars, viewVars, cart, formVars,
                   errlog, showSuccess, fetches, event>>

itemsInsertFailedClearsCart(s, e) ==
    /\ Throw(s, e)
    /\ cart' = [cart EXCEPT ![s] = <<>>]
    /\ UNCHANGED <<db_transaction_items, calls, formVars, showSuccess, fetches>>

\* if (iError) throw iError
itemsInsertFailed(s, e) ==
    /\ Throw(s, e)
    /\ UNCHANGED <<db_transaction_items, calls, cart, formVars, showSuccess, fetches>>

insertItemsReturnsLiveCart(s, res) ==
    /\ pc[s] = "insertItems"
    /\ IF res = "ok"
       THEN /\ db_transaction_items' =
                    db_transaction_items \o TransactionItems(cart[s], co[s].txid)
            /\ StockLoop(s, 0)
       ELSE itemsInsertFailed(s, res)
    /\ UNCHANGED <<db_products, db_transactions, storeVars, notices, viewVars, errlog, event>>

\* step 2 returns: the store has inserted the rows, or has failed
insertItemsReturns(s, res) ==
    /\ pc[s] = "insertItems"
    /\ IF res = "ok"
       THEN /\ db_transaction_items' =
                    db_transaction_items \o TransactionItems(co[s].cart, co[s].txid)
            /\ StockLoop(s, 0)
       ELSE itemsInsertFailed(s, res)
    /\ UNCHANGED <<db_products, db_transactions, storeVars, notices, viewVars, errlog, event>>

\* .update({ stock: item.stock - item.quantity }).eq('id', item.id):
\* a row that has been deleted matches nothing, which is no error
stockUpdated(s) ==
    LET item == co[s].cart[co[s].idx]
    IN  /\ IF item.id \in DOMAIN db_products
           THEN /\ db_products' =
                        [db_products EXCEPT ![item.id].stock = item.stock - item.quantity]
                /\ Notify("products")
           ELSE UNCHANGED <<db_products, notices>>
        /\ UNCHANGED errlog
        /\ StockLoop(s, co[s].idx)

stockUpdateFailedThrows(s, e) ==
    /\ Throw(s, e)
    /\ UNCHANGED <<db_products, notices, errlog, calls, cart, formVars, showSuccess, fetches>>

\* if (sError) console.error(`Failed to update stock for product ${item.id}`, sError)
stockUpdateFailed(s, e) ==
    /\ errlog' = [errlog EXCEPT ![s] = @ \cup {co[s].cart[co[s].idx].id}]
    /\ UNCHANGED <<db_products, notices>>
    /\ StockLoop(s, co[s].idx)

\* one stock update of step 3 returns
updateStockReturns(s, res) ==
    /\ pc[s] = "updateStock"
    /\ IF res = "ok" THEN stockUpdated(s) ELSE stockUpdateFailed(s, res)
    /\ UNCHANGED <<db_transactions, db_transaction_items, storeVars, viewVars, event>>

\* setTimeout(() => setShowSuccess(false), 3000)
hideSuccess(s) ==
    /\ showSuccess[s]
    /\ showSuccess' = [showSuccess EXCEPT ![s] = FALSE]
    /\ UNCHANGED <<dbVars, storeVars, notices, viewVars, cart, formVars, pc, co, exit, calls,
                   errlog, isProcessing, fetches, event>>

\* ---------------------------------------------------------- SQLite server
\* the Express server over better-sqlite3 (src/unnamed/part_001): one connection, every
\* route handler runs to its end before the next request is taken
NoRequest ==
    [route |-> "none", at |-> "idle", body |-> <<>>, i |-> 0, saved |-> <<>>,
     status |-> 0, response |-> <<>>, lines |-> <<>>]

\* what the session variables keep while the server works
sessionVars == <<notices, viewVars, cart, formVars, checkoutVars, fetches, event>>

\* db.transaction(fn) has caught a throw of fn: ROLLBACK, and the handler answers 500
RollbackNone ==
    /\ api' = [api EXCEPT !.at = "idle", !.status = 500, !.saved = <<>>]
    /\ UNCHANGED dbVars

Rollback ==
    /\ db_transactions' = api.saved[1]
    /\ db_transaction_items' = api.saved[2]
    /\ db_products' = api.saved[3]
    /\ api' = [api EXCEPT !.at = "idle", !.status = 500, !.saved = <<>>]

\* the loop body is done for line i: the next line, or COMMIT and the handler answers 200
NextItem(i) ==
    IF i < Len(api.body.items)
    THEN api' = [api EXCEPT !.at = "insertItem", !.i = i + 1]
    ELSE api' = [api EXCEPT !.at = "idle", !.status = 200, !.saved = <<>>,
                            !.response = <<Len(db_transactions)>>,
                            !.lines = Append(@, Len(api.body.items))]

\* app.post("/api/transactions"): the handler is entered with the request body, BEGIN
postTransactions(body) ==
    /\ api.at = "idle"
    /\ Len(db_transactions) < MaxTxns
    /\ api' = [api EXCEPT !.route = "POST /api/transactions", !.at = "insertTransaction",
                            !.body = body, !.i = 0, !.status = 0, !.response = <<>>,
                            !.saved = <<db_transactions, db_transaction_items, db_products>>]
    /\ UNCHANGED <<dbVars, db_products_seq, now, sessionVars>>

\* insertTransaction.run(...): the row gets the next id and CURRENT_TIMESTAMP
insertTransactionRun(ok) ==
    /\ api.at = "insertTransaction"
    /\ IF ok
       THEN /\ db_transactions' =
                    Append(db_transactions,
                           [id |-> Len(db_transactions) + 1,
                            total_amount |-> api.body.total_amount,
                            customer_name |-> api.body.customer_name,
                            order_type |-> api.body.order_type,
                            amount_paid |-> api.body.amount_paid,
                            change_amount |-> api.body.change_amount,
                            payment_method |-> api.body.payment_method,
                            timestamp |-> now])
            /\ NextItem(0)
            /\ UNCHANGED <<db_products, db_transaction_items>>
       ELSE Rollback
    /\ UNCHANGED <<db_products_seq, now, sessionVars>>

\* insertItem.run(transactionId, item.id, item.name, item.quantity, item.price)
insertItemRun(ok) ==
    /\ api.at = "insertItem"
    /\ IF ok
       THEN /\ db_transaction_items' =
                    Append(db_transaction_items,
                           [transaction_id |-> Len(db_transactions),
                            product_id |-> api.body.items[api.i].id,
                            product_name |-> api.body.items[api.i].name,
                            quantity |-> api.body.items[api.i].quantity,
                            price |-> api.body.items[api.i].price])
            /\ api' = [api EXCEPT !.at = "updateStock"]
            /\ UNCHANGED <<db_products, db_transactions>>
       ELSE Rollback
    /\ UNCHANGED <<db_products_seq, now, sessionVars>>

\* updateStock.run(item.quantity, item.id):
\* UPDATE products SET stock = stock - ? WHERE id = ? AND stock > -1
updateStockRun(ok) ==
    /\ api.at = "updateStock"
    /\ IF ok
       THEN LET item == api.body.items[api.i]
            IN  /\ IF item.id \in DOMAIN db_products /\ db_products[item.id].stock > -1
                   THEN db_products' =
                            [db_products EXCEPT ![item.id].stock = @ - item.quantity]
                   ELSE UNCHANGED db_products
                /\ NextItem(api.i)
                /\ UNCHANGED <<db_transactions, db_transaction_items>>
       ELSE Rollback
    /\ UNCHANGED <<db_products_seq, now, sessionVars>>

\* the same history by calendar date: SELECT date(timestamp) as date, SUM(total_amount) as
\* total FROM transactions GROUP BY date(timestamp) ORDER BY date ASC
SalesByDate(rows) ==
    LET grouped == GroupBy([i \in 1..Len(rows) |->
                                [key |-> DateOf(rows[i].timestamp),
                                 value |-> rows[i].total_amount]], 1, <<>>)
        entries == [i \in 1..Len(grouped) |->
                        [date |-> grouped[i].key, total |-> grouped[i].value]]
    IN  StableSort(entries, [i \in 1..Len(entries) |-> entries[i].date])

\* the row limit of the sales query
SalesLimit == 30

\* app.get("/api/analytics/sales"): ... ORDER BY date ASC LIMIT 30
getAnalyticsSales ==
    /\ api.at = "idle"
    /\ api' = [api EXCEPT !.route = "GET /api/analytics/sales", !.status = 200,
                            !.body = <<>>,
                            !.response = SubSeq(SalesByDate(db_transactions), 1,
                                                Min(SalesLimit, Len(SalesByDate(db_transactions))))]
    /\ UNCHANGED <<dbVars, db_products_seq, now, sessionVars>>

\* --------------------------------------------------------- specifications
Results == {"ok"} \cup StoreErrors

NoExit == [at |-> "none", alert |-> NoAlert]
NoEvent == <<"none", 0, 0>>

\* what a session holds before it has done anything
Idle ==
    /\ historyData = [s \in Sessions |-> <<>>]
    /\ isProcessing = [s \in Sessions |-> FALSE]
    /\ showSuccess = [s \in Sessions |-> FALSE]
    /\ pc = [s \in Sessions |-> "idle"]
    /\ co = [s \in Sessions |-> NoClosure]
    /\ exit = [s \in Sessions |-> NoExit]
    /\ calls = [s \in Sessions |-> 0]
    /\ errlog = [s \in Sessions |-> {}]
    /\ event = [s \in Sessions |-> NoEvent]
    /\ salesData = [s \in Sessions |-> <<>>]
    /\ topProducts = [s \in Sessions |-> <<>>]
    /\ notices = [s \in Sessions |-> {}]
    /\ api = NoRequest
    /\ configError = [s \in Sessions |-> NoConfigError]
    /\ saving = [s \in Sessions |-> NoSave]

\* fresh sessions on a store that has the shelf's products and no sale yet
Fresh ==
    /\ Idle
    /\ fetchingAnalytics = [s \in Sessions |-> {}]
    /\ db_products_seq = Cardinality(ProductIds)
    /\ now = 0
    /\ db_transactions = <<>>
    /\ db_transaction_items = <<>>

\* a cart line holds the stock its product had in the catalogue when it was added:
\* unlimited, or at least 1
SnapStocks == {Unlimited} \cup (1..MaxStock)
Lines(p) == {CartItem(Product(p, st), q) : st \in SnapStocks, q \in 1..MaxQty}
Carts ==
    {<<>>}
    \cup {<<a>> : a \in Lines(1) \cup Lines(2)}
    \cup {<<a, b>> : a \in Lines(1), b \in Lines(2)}
    \cup {<<b, a>> : a \in Lines(1), b \in Lines(2)}

Names == {"", " ", "Ani"}
OrderTypes == {"Dine In", "Take Away"}
\* Cash: the "Bayar" field is empty or holds a typed amount;
\* another method: the field holds the cart total of the moment the method was chosen
Payments ==
    {<<"Cash", a>> : a \in {Blank, <<2 * SeedPrice(1)>>, <<MaxPaid>>}}
    \cup {<<"QRIS", a>> : a \in {<<SeedPrice(1)>>, <<2 * SeedPrice(1)>>}}

\* Session 1 is about to press "Bayar Sekarang": any cart the cart handlers can build,
\* any form contents, any stock in the store (inventory edits since the lines were added)
Init ==
    /\ Fresh
    /\ db_products \in {[p \in ProductIds |-> Product(p, st[p])] :
                            st \in [ProductIds -> {Unlimited, 0, MaxStock}]}
    /\ products = [s \in Sessions |-> db_products]
    /\ fetchingProducts = [s \in Sessions |-> {}]
    /\ fetchingHistory = [s \in Sessions |-> {}]
    /\ \E c \in Carts :
        /\ \A i \in 1..Len(c) :
                c[i].stock = Unlimited => db_products[c[i].id].stock = Unlimited
        /\ cart = [s \in Sessions |-> IF s = 1 THEN c ELSE <<>>]
    /\ \E n \in Names : customerName = [s \in Sessions |-> IF s = 1 THEN n ELSE ""]
    /\ \E t \in OrderTypes : orderType = [s \in Sessions |-> IF s = 1 THEN t ELSE "Dine In"]
    /\ \E pay \in Payments :
        /\ paymentMethod = [s \in Sessions |-> IF s = 1 THEN pay[1] ELSE "Cash"]
        /\ amountPaid = [s \in Sessions |-> IF s = 1 THEN pay[2] ELSE Blank]

Next ==
    \E s \in {1} :
        \/ handleCheckout(s)
        \/ \E res \in Results : insertTransactionReturns(s, res)
        \/ \E res \in Results : insertItemsReturns(s, res)
        \/ \E res \in Results : updateStockReturns(s, res)
        \/ hideSuccess(s)
        \/ fetchProductsRead(s)
        \/ fetchProductsApply(s)
        \/ fetchHistoryRead(s)
        \/ fetchHistoryApply(s)

Spec == Init /\ [][Next]_vars

\* the shelf at opening time: product 1 is stock-limited, product 2 is a service
ShelfStock(p) == IF p = 1 THEN MaxStock ELSE Unlimited

\* the stock-limited products of the shelf
Limited == {p \in ProductIds : ShelfStock(p) # Unlimited}

\* Session 1 right after the component has mounted: the first fetchProducts is in flight
InitCart ==
    /\ Fresh
    /\ db_products = [p \in ProductIds |-> Product(p, ShelfStock(p))]
    /\ products = [s \in Sessions |-> << >>]
    /\ fetchingProducts = [s \in Sessions |-> IF s = 1 THEN {Sent} ELSE {}]
    /\ fetchingHistory = [s \in Sessions |-> {}]
    /\ cart = [s \in Sessions |-> <<>>]
    /\ customerName = [s \in Sessions |-> ""]
    /\ orderType = [s \in Sessions |-> "Dine In"]
    /\ paymentMethod = [s \in Sessions |-> "Cash"]
    /\ amountPaid = [s \in Sessions |-> Blank]

NextCart ==
    \E s \in {1} :
        \/ \E p \in ProductIds : addToCart(s, p)
        \/ \E p \in ProductIds : removeFromCart(s, p)
        \/ \E p \in ProductIds, d \in Deltas : updateQuantity(s, p, d)
        \/ \E p \in ProductIds, st \in StockInputs :
                /\ p \in DOMAIN products[s]
                /\ handleUpdateProduct(s, [products[s][p] EXCEPT !.stock = st])
        \/ \E res \in {"ok", "Failed to fetch"} : updateProductReturns(s, res)
        \/ fetchProductsRead(s)
        \/ fetchProductsApply(s)

SpecCart == InitCart /\ [][NextCart]_vars

\* Two sessions, each with one unit of product 1 in the cart, added while its stock was 10
InitRace ==
    /\ Fresh
    /\ db_products = [p \in ProductIds |-> Product(p, IF p = 1 THEN 10 ELSE Unlimited)]
    /\ products = [s \in Sessions |-> db_products]
    /\ fetchingProducts = [s \in Sessions |-> {}]
    /\ fetchingHistory = [s \in Sessions |-> {}]
    /\ cart = [s \in Sessions |-> <<CartItem(db_products[1], 1)>>]
    /\ customerName = [s \in Sessions |-> "Ani"]
    /\ orderType = [s \in Sessions |-> "Dine In"]
    /\ paymentMethod = [s \in Sessions |-> "Cash"]
    /\ amountPaid = [s \in Sessions |-> Blank]

NextRace ==
    \E s \in Sessions :
        \/ handleCheckout(s)
        \/ \E res \in Results : insertTransactionReturns(s, res)
        \/ \E res \in Results : insertItemsReturns(s, res)
        \/ \E res \in Results : updateStockReturns(s, res)

SpecRace == InitRace /\ [][NextRace]_vars

\* Session 1 alone sells from the shelf: cart handlers and commits, no inventory edit
InitSale ==
    /\ Fresh
    /\ db_products = [p \in ProductIds |-> Product(p, ShelfStock(p))]
    /\ products = [s \in Sessions |-> db_products]
    /\ fetchingProducts = [s \in Sessions |-> {}]
    /\ fetchingHistory = [s \in Sessions |-> {}]
    /\ cart = [s \in Sessions |-> <<>>]
    /\ customerName = [s \in Sessions |-> ""]
    /\ orderType = [s \in Sessions |-> "Dine In"]
    /\ paymentMethod = [s \in Sessions |-> "Cash"]
    /\ amountPaid = [s \in Sessions |-> Blank]

NextSale ==
    \E s \in {1} :
        \/ \E p \in Limited : addToCart(s, p)
        \/ \E p \in Limited : removeFromCart(s, p)
        \/ \E p \in Limited, d \in {-1, 1} : updateQuantity(s, p, d)
        \/ setCustomerName(s, "Ani")
        \/ handleCheckout(s)
        \/ \E res \in {"ok", "Failed to fetch"} : insertTransactionReturns(s, res)
        \/ \E res \in {"ok", "Failed to fetch"} : insertItemsReturns(s, res)
        \/ \E res \in {"ok", "Failed to fetch"} : updateStockReturns(s, res)
        \/ fetchProductsRead(s)
        \/ fetchProductsApply(s)

SpecSale == InitSale /\ [][NextSale]_vars

\* what the edit form is submitted with for the catalogue row r: a new name and price
Edits(r) == {[r EXCEPT !.name = "578", !.price = SeedPrice(1) + SeedPrice(2)]} \ {r}

\* what the add form is submitted with
NewProducts == {[name |-> "578", price |-> SeedPrice(1), stock |-> Unlimited]}

\* Session 1 has both products of the shelf in the cart and the name typed in; it sells,
\* deletes the stock-limited product before, during and after the sale, and edits it and
\* creates products whenever no submit is in flight
InitShop ==
    /\ Fresh
    /\ db_products = [p \in ProductIds |-> Product(p, ShelfStock(p))]
    /\ products = [s \in Sessions |-> db_products]
    /\ fetchingProducts = [s \in Sessions |-> {}]
    /\ fetchingHistory = [s \in Sessions |-> {}]
    /\ cart = [s \in Sessions |->
                IF s = 1 THEN <<CartItem(db_products[1], 1), CartItem(db_products[2], 1)>>
                ELSE <<>>]
    /\ customerName = [s \in Sessions |-> IF s = 1 THEN "Ani" ELSE ""]
    /\ orderType = [s \in Sessions |-> "Dine In"]
    /\ paymentMethod = [s \in Sessions |-> "Cash"]
    /\ amountPaid = [s \in Sessions |-> Blank]

NextShop ==
    \E s \in {1} :
        \/ handleCheckout(s)
        \/ \E res \in {"ok", "Failed to fetch"} : insertTransactionReturns(s, res)
        \/ \E res \in {"ok", "Failed to fetch"} : insertItemsReturns(s, res)
        \/ \E res \in {"ok", "Failed to fetch"} : updateStockReturns(s, res)
        \/ \E p \in Limited \cap DOMAIN products[s] :
                \E edited \in Edits(products[s][p]) : handleUpdateProduct(s, edited)
        \/ \E res \in {"ok", "Failed to fetch"} : updateProductReturns(s, res)
        \/ \E p \in Limited, ok \in BOOLEAN : handleDeleteProduct(s, p, ok)
        \/ \E newProduct \in NewProducts : handleCreateProduct(s, newProduct)
        \/ \E res \in {"ok", "Failed to fetch"} : createProductReturns(s, res)
        \/ fetchProductsRead(s)
        \/ fetchProductsApply(s)

SpecShop == InitShop /\ [][NextShop]_vars

\* Two terminals with the catalogue loaded: session 2 edits the stock of product 1 in the
\* inventory tab again and again, both sessions receive the notifications and re-read
InitNotify ==
    /\ Fresh
    /\ db_products = [p \in ProductIds |-> Product(p, ShelfStock(p))]
    /\ products = [s \in Sessions |-> db_products]
    /\ fetchingProducts = [s \in Sessions |-> {}]
    /\ fetchingHistory = [s \in Sessions |-> {}]
    /\ cart = [s \in Sessions |-> <<>>]
    /\ customerName = [s \in Sessions |-> ""]
    /\ orderType = [s \in Sessions |-> "Dine In"]
    /\ paymentMethod = [s \in Sessions |-> "Cash"]
    /\ amountPaid = [s \in Sessions |-> Blank]

NextNotify ==
    \/ \E st \in StockInputs : handleUpdateProduct(2, [products[2][1] EXCEPT !.stock = st])
    \/ \E res \in {"ok", "Failed to fetch"} : updateProductReturns(2, res)
    \/ \E s \in Sessions :
        \/ \E again \in BOOLEAN : onProductsChange(s, again)
        \/ fetchProductsRead(s)
        \/ fetchProductsApply(s)

SpecNotify == InitNotify /\ [][NextNotify]_vars

\* Session 2 sells one unit of product 1, every store call succeeding; session 1 receives
\* the notifications of the store and runs the re-reads they start
InitListen ==
    /\ Fresh
    /\ db_products = [p \in ProductIds |-> Product(p, ShelfStock(p))]
    /\ products = [s \in Sessions |-> db_products]
    /\ fetchingProducts = [s \in Sessions |-> {}]
    /\ fetchingHistory = [s \in Sessions |-> {}]
    /\ cart = [s \in Sessions |-> IF s = 2 THEN <<CartItem(db_products[1], 1)>> ELSE <<>>]
    /\ customerName = [s \in Sessions |-> IF s = 2 THEN "Ani" ELSE ""]
    /\ orderType = [s \in Sessions |-> "Dine In"]
    /\ paymentMethod = [s \in Sessions |-> "Cash"]
    /\ amountPaid = [s \in Sessions |-> Blank]

NextListen ==
    \/ handleCheckout(2)
    \/ insertTransactionReturns(2, "ok")
    \/ insertItemsReturns(2, "ok")
    \/ updateStockReturns(2, "ok")
    \/ \E again \in BOOLEAN : onProductsChange(1, again)
    \/ \E again \in BOOLEAN : onTransactionsChange(1, again)
    \/ fetchProductsRead(1)
    \/ fetchProductsApply(1)
    \/ fetchHistoryRead(1)
    \/ fetchHistoryApply(1)
    \/ fetchAnalyticsRead(1)
    \/ fetchAnalyticsSales(1)
    \/ fetchAnalyticsItems(1)

SpecListen == InitListen /\ [][NextListen]_vars

\* the names on the menu, in the order of their first sale: eleven names of the seed
\* catalogue and a product the owner has named after the shop
Menu ==
    <<"Seblak Original", "578", "Seblak Spesial", "Ceker", "Bakso", "Sosis",
      "Dumpling Cheese", "Chikuwa", "Es Teh Manis", "Es Jeruk", "Air Mineral", "Pulsa 5k">>

\* largest number of sales after the first round
MaxTail == 2

\* a history of single-line sales: the first k products of the menu sold once each, then
\* up to MaxTail sales of the first, the second or the last product
FirstRound(k) == [i \in 1..k |-> [product |-> i, quantity |-> 1]]
Tails == UNION {[1..n -> [product : {1, 2, Len(Menu)}, quantity : 1..MaxQty]] : n \in 0..MaxTail}
Histories == {FirstRound(k) \o tail : k \in 0..Len(Menu), tail \in Tails}

\* the rows these sales have left in the store, two sales a day
SoldTransactions(sold) ==
    [i \in 1..Len(sold) |->
        [id |-> i,
         total_amount |-> SeedPrice(1) * sold[i].quantity,
         customer_name |-> "Ani",
         order_type |-> "Dine In",
         amount_paid |-> SeedPrice(1) * sold[i].quantity,
         change_amount |-> 0,
         payment_method |-> "Cash",
         timestamp |-> 12 * i]]

SoldItems(sold) ==
    [i \in 1..Len(sold) |->
        [transaction_id |-> i,
         product_id |-> sold[i].product,
         product_name |-> Menu[sold[i].product],
         quantity |-> sold[i].quantity,
         price |-> SeedPrice(1)]]

\* Session 1 has just opened the analysis tab on a store with a history of sales:
\* the effect has called fetchProducts() and fetchAnalytics()
InitAnalytics ==
    /\ Idle
    /\ db_products = [p \in 1..Len(Menu) |->
                        [id |-> p, name |-> Menu[p], price |-> SeedPrice(1), stock |-> Unlimited]]
    /\ db_products_seq = Len(Menu)
    /\ \E sold \in Histories :
        /\ db_transactions = SoldTransactions(sold)
        /\ db_transaction_items = SoldItems(sold)
        /\ now = 12 * (Len(sold) + 1)
    /\ products = [s \in Sessions |-> << >>]
    /\ fetchingProducts = [s \in Sessions |-> IF s = 1 THEN {Sent} ELSE {}]
    /\ fetchingHistory = [s \in Sessions |-> {}]
    /\ fetchingAnalytics = [s \in Sessions |-> IF s = 1 THEN {Asked("sales")} ELSE {}]
    /\ cart = [s \in Sessions |-> <<>>]
    /\ customerName = [s \in Sessions |-> ""]
    /\ orderType = [s \in Sessions |-> "Dine In"]
    /\ paymentMethod = [s \in Sessions |-> "Cash"]
    /\ amountPaid = [s \in Sessions |-> Blank]

NextAnalytics ==
    \E s \in {1} :
        \/ fetchProductsRead(s)
        \/ fetchProductsApply(s)
        \/ fetchAnalyticsRead(s)
        \/ fetchAnalyticsSales(s)
        \/ fetchAnalyticsItems(s)

SpecAnalytics == InitAnalytics /\ [][NextAnalytics]_vars

\* two products named by one letter each, and the quantities of the lines sold
Letters == <<"A", "B">>
LetterQuantities == {2, 3, 5}

\* largest number of single-line sales of the two lettered products
MaxSold == 3

LetterHistories ==
    UNION {[1..n -> [product : 1..Len(Letters), quantity : LetterQuantities]] : n \in 0..MaxSold}

LetterItems(sold) ==
    [i \in 1..Len(sold) |->
        [transaction_id |-> i,
         product_id |-> sold[i].product,
         product_name |-> Letters[sold[i].product],
         quantity |-> sold[i].quantity,
         price |-> SeedPrice(1)]]

\* Session 1 has just opened the analysis tab on a store that sells the two lettered
\* products and has a history of up to MaxSold single-line sales
InitLetters ==
    /\ Idle
    /\ db_products = [p \in 1..Len(Letters) |->
                        [id |-> p, name |-> Letters[p], price |-> SeedPrice(1), stock |-> Unlimited]]
    /\ db_products_seq = Len(Letters)
    /\ \E sold \in LetterHistories :
        /\ db_transactions = SoldTransactions(sold)
        /\ db_transaction_items = LetterItems(sold)
        /\ now = 12 * (Len(sold) + 1)
    /\ products = [s \in Sessions |-> << >>]
    /\ fetchingProducts = [s \in Sessions |-> IF s = 1 THEN {Sent} ELSE {}]
    /\ fetchingHistory = [s \in Sessions |-> {}]
    /\ fetchingAnalytics = [s \in Sessions |-> IF s = 1 THEN {Asked("sales")} ELSE {}]
    /\ cart = [s \in Sessions |-> <<>>]
    /\ customerName = [s \in Sessions |-> ""]
    /\ orderType = [s \in Sessions |-> "Dine In"]
    /\ paymentMethod = [s \in Sessions |-> "Cash"]
    /\ amountPaid = [s \in Sessions |-> Blank]

SpecLetters == InitLetters /\ [][NextAnalytics]_vars

\* largest number of days of sales beyond the days the sales series keeps
MaxOver == 2

\* the sales of day k: one unit of product 1 in the first hour and, on a busy day, one
\* unit of product 2 in the last hour; none on a day the shop is closed
DaySales(k, busy, closed) ==
    IF k \in closed THEN <<>>
    ELSE <<[product |-> 1, hour |-> 24 * k + 1]>>
         \o (IF k \in busy THEN <<[product |-> 2, hour |-> 24 * k + 23]>> ELSE <<>>)

\* the sales of the days k..d in the order in which they were made
RECURSIVE SalesOfDays(_, _, _, _)
SalesOfDays(k, d, busy, closed) ==
    IF k > d THEN <<>>
    ELSE DaySales(k, busy, closed) \o SalesOfDays(k + 1, d, busy, closed)

\* d days of trading; the first, the second and the last day may be busy, the third closed
Ledgers ==
    {SalesOfDays(1, d, busy, closed) :
        d \in 0..(SalesDays + MaxOver), busy \in SUBSET {1, 2, SalesDays + MaxOver},
        closed \in {{}, {3}}}

\* the rows these sales have left in the store
LedgerTransactions(ledger) ==
    [i \in 1..Len(ledger) |->
        [id |-> i,
         total_amount |-> SeedPrice(ledger[i].product),
         customer_name |-> "Ani",
         order_type |-> "Dine In",
         amount_paid |-> SeedPrice(ledger[i].product),
         change_amount |-> 0,
         payment_method |-> "Cash",
         timestamp |-> ledger[i].hour]]

LedgerItems(ledger) ==
    [i \in 1..Len(ledger) |->
        [transaction_id |-> i,
         product_id |-> ledger[i].product,
         product_name |-> SeedName(ledger[i].product),
         quantity |-> 1,
         price |-> SeedPrice(ledger[i].product)]]

\* Session 1 has just opened the analysis tab on a store with weeks of sales, and the same
\* rows are in the database of the SQLite server
InitSeries ==
    /\ Idle
    /\ db_products = [p \in ProductIds |-> Product(p, Unlimited)]
    /\ db_products_seq = Cardinality(ProductIds)
    /\ \E ledger \in Ledgers :
        /\ db_transactions = LedgerTransactions(ledger)
        /\ db_transaction_items = LedgerItems(ledger)
    /\ now = 24 * (SalesDays + MaxOver + 1)
    /\ products = [s \in Sessions |-> db_products]
    /\ fetchingProducts = [s \in Sessions |-> {}]
    /\ fetchingHistory = [s \in Sessions |-> {}]
    /\ fetchingAnalytics = [s \in Sessions |-> IF s = 1 THEN {Asked("sales")} ELSE {}]
    /\ cart = [s \in Sessions |-> <<>>]
    /\ customerName = [s \in Sessions |-> ""]
    /\ orderType = [s \in Sessions |-> "Dine In"]
    /\ paymentMethod = [s \in Sessions |-> "Cash"]
    /\ amountPaid = [s \in Sessions |-> Blank]

NextSeries ==
    \/ fetchAnalyticsRead(1)
    \/ fetchAnalyticsSales(1)
    \/ fetchAnalyticsItems(1)
    \/ getAnalyticsSales

SpecSeries == InitSeries /\ [][NextSeries]_vars

\* failures of a request that has been sent: the network is down, or the store does not
\* accept the key the deployment is configured with
RequestErrors == {"Failed to fetch", InvalidApiKey}

\* Session 1 opens the page, with the credentials set or unset in the deployment, sells
\* units of product 1 and edits it; every request may fail. The configuration screen replaces
\* the whole page, handlers included, while configError is set.
InitConfig ==
    /\ Fresh
    /\ db_products = [p \in ProductIds |-> Product(p, ShelfStock(p))]
    /\ products = [s \in Sessions |-> << >>]
    /\ fetchingProducts = [s \in Sessions |-> {}]
    /\ fetchingHistory = [s \in Sessions |-> {}]
    /\ cart = [s \in Sessions |-> <<>>]
    /\ customerName = [s \in Sessions |-> ""]
    /\ orderType = [s \in Sessions |-> "Dine In"]
    /\ paymentMethod = [s \in Sessions |-> "Cash"]
    /\ amountPaid = [s \in Sessions |-> Blank]

NextConfig ==
    \E s \in {1} :
        \/ \E configured \in BOOLEAN : mount(s, configured)
        \/ fetchProductsRead(s)
        \/ fetchProductsApply(s)
        \/ \E e \in RequestErrors : fetchProductsFails(s, e)
        \/ fetchHistoryRead(s)
        \/ fetchHistoryApply(s)
        \/ \E e \in RequestErrors : fetchHistoryFails(s, e)
        \/ /\ event[s] # NoEvent
           /\ configError[s] = NoConfigError
           /\ \/ \E p \in Limited : addToCart(s, p)
              \/ setCustomerName(s, "Ani")
              \/ handleCheckout(s)
              \/ \E p \in Limited \cap DOMAIN products[s] :
                    \E edited \in Edits(products[s][p]) : handleUpdateProduct(s, edited)
        \/ \E res \in {"ok"} \cup RequestErrors : updateProductReturns(s, res)
        \/ \E res \in {"ok"} \cup RequestErrors : insertTransactionReturns(s, res)
        \/ \E res \in {"ok"} \cup RequestErrors : insertItemsReturns(s, res)
        \/ \E res \in {"ok"} \cup RequestErrors : updateStockReturns(s, res)

SpecConfig == InitConfig /\ [][NextConfig]_vars

\* every store call of a commit returns: the three returns are taken when they can be
Returns(s) ==
    /\ WF_vars(\E res \in Results : insertTransactionReturns(s, res))
    /\ WF_vars(\E res \in Results : insertItemsReturns(s, res))
    /\ WF_vars(\E res \in Results : updateStockReturns(s, res))

\* Session 1 is about to press "Bayar Sekarang" with the name typed in and the amount
\* field empty: any cart the cart handlers can build from a full shelf
InitLive ==
    /\ Fresh
    /\ db_products = [p \in ProductIds |-> Product(p, MaxStock)]
    /\ products = [s \in Sessions |-> db_products]
    /\ fetchingProducts = [s \in Sessions |-> {}]
    /\ fetchingHistory = [s \in Sessions |-> {}]
    /\ \E c \in Carts :
        /\ \A i \in 1..Len(c) : c[i].stock # Unlimited
        /\ cart = [s \in Sessions |-> IF s = 1 THEN c ELSE <<>>]
    /\ customerName = [s \in Sessions |-> IF s = 1 THEN "Ani" ELSE ""]
    /\ orderType = [s \in Sessions |-> "Dine In"]
    /\ paymentMethod = [s \in Sessions |-> "Cash"]
    /\ amountPaid = [s \in Sessions |-> Blank]

SpecLive == InitLive /\ [][Next]_vars /\ Returns(1)

\* the bodies the transactions endpoint is posted: a cart of no, one or two lines with the
\* total of the lines, paid exactly
PostedCarts ==
    {<<>>}
    \cup {<<CartItem(Product(1, ShelfStock(1)), q)>> : q \in 1..MaxQty}
    \cup {<<CartItem(Product(1, ShelfStock(1)), q), CartItem(Product(2, ShelfStock(2)), 1)>> :
                q \in 1..MaxQty}

Body(items) ==
    [items |-> items, total_amount |-> cartTotal(items), customer_name |-> "Ani",
     order_type |-> "Dine In", amount_paid |-> cartTotal(items), change_amount |-> 0,
     payment_method |-> "Cash"]

\* The SQLite server on a database with the shelf's products and no sale yet: sales are
\* posted to it, any statement of a posted sale may fail, and the sales series is asked for
InitServer ==
    /\ Fresh
    /\ db_products = [p \in ProductIds |-> Product(p, ShelfStock(p))]
    /\ products = [s \in Sessions |-> db_products]
    /\ fetchingProducts = [s \in Sessions |-> {}]
    /\ fetchingHistory = [s \in Sessions |-> {}]
    /\ cart = [s \in Sessions |-> <<>>]
    /\ customerName = [s \in Sessions |-> ""]
    /\ orderType = [s \in Sessions |-> "Dine In"]
    /\ paymentMethod = [s \in Sessions |-> "Cash"]
    /\ amountPaid = [s \in Sessions |-> Blank]

NextServer ==
    \/ \E items \in PostedCarts : postTransactions(Body(items))
    \/ \E ok \in BOOLEAN : insertTransactionRun(ok)
    \/ \E ok \in BOOLEAN : insertItemRun(ok)
    \/ \E ok \in BOOLEAN : updateStockRun(ok)
    \/ getAnalyticsSales

SpecServer == InitServer /\ [][NextServer]_vars

\* Session 1 has one unit of product 1 in the cart and the name typed in; it presses
\* "Bayar Sekarang" and goes on clicking product cards and cart buttons while the commit
\* is in flight
InitBusy ==
    /\ Fresh
    /\ db_products = [p \in ProductIds |-> Product(p, ShelfStock(p))]
    /\ products = [s \in Sessions |-> db_products]
    /\ fetchingProducts = [s \in Sessions |-> {}]
    /\ fetchingHistory = [s \in Sessions |-> {}]
    /\ cart = [s \in Sessions |-> IF s = 1 THEN <<CartItem(db_products[1], 1)>> ELSE <<>>]
    /\ customerName = [s \in Sessions |-> IF s = 1 THEN "Ani" ELSE ""]
    /\ orderType = [s \in Sessions |-> "Dine In"]
    /\ paymentMethod = [s \in Sessions |-> "Cash"]
    /\ amountPaid = [s \in Sessions |-> Blank]

NextBusy ==
    \E s \in {1} :
        \/ pc[s] # "idle" /\ \E p \in ProductIds : addToCart(s, p)
        \/ pc[s] # "idle" /\ \E p \in ProductIds : removeFromCart(s, p)
        \/ pc[s] # "idle" /\ \E p \in ProductIds, d \in {-1, 1} : updateQuantity(s, p, d)
        \/ handleCheckout(s)
        \/ \E res \in {"ok", "Failed to fetch"} : insertTransactionReturns(s, res)
        \/ insertItemsReturns(s, "ok")
        \/ \E res \in {"ok", "Failed to fetch"} : updateStockReturns(s, res)

SpecBusy == InitBusy /\ [][NextBusy]_vars

\* the methods the "Metode" select is set to: Cash and one of the five others
Methods == {"Cash", "QRIS"}

\* what is typed into the "Bayar" field: nothing, the price of product 1, a large note
Tendered == {Blank, <<SeedPrice(1)>>, <<MaxPaid>>}

\* Session 1 with the name typed in and an empty cart: it puts the stock-limited product
\* into the cart and takes it out, chooses the method and types the amount in any order,
\* and commits
InitPay ==
    /\ Fresh
    /\ db_products = [p \in ProductIds |-> Product(p, ShelfStock(p))]
    /\ products = [s \in Sessions |-> db_products]
    /\ fetchingProducts = [s \in Sessions |-> {}]
    /\ fetchingHistory = [s \in Sessions |-> {}]
    /\ cart = [s \in Sessions |-> <<>>]
    /\ customerName = [s \in Sessions |-> IF s = 1 THEN "Ani" ELSE ""]
    /\ orderType = [s \in Sessions |-> "Dine In"]
    /\ paymentMethod = [s \in Sessions |-> "Cash"]
    /\ amountPaid = [s \in Sessions |-> Blank]

NextPay ==
    \E s \in {1} :
        \/ \E p \in Limited : addToCart(s, p)
        \/ \E p \in Limited : removeFromCart(s, p)
        \/ \E method \in Methods : setPaymentMethod(s, method)
        \/ \E amount \in Tendered : setAmountPaid(s, amount)
        \/ handleCheckout(s)
        \/ insertTransactionReturns(s, "ok")
        \/ insertItemsReturns(s, "ok")
        \/ updateStockReturns(s, "ok")

SpecPay == InitPay /\ [][NextPay]_vars

\* ----------------------------------------------------------------- claims
\* the sum of unit price times quantity over the lines, by the indices in any order
RECURSIVE SumOver(_, _)
SumOver(rows, I) ==
    IF I = {} THEN 0
    ELSE LET i == CHOOSE k \in I : TRUE
         IN  (rows[i].price * rows[i].quantity) + SumOver(rows, I \ {i})

LineSum(rows) == SumOver(rows, DOMAIN rows)

\* the transition in which a running handleCheckout of s ends its try block
Succeeds(s) == pc[s] # "idle" /\ exit'[s].at = "success627"

\* C1: two sessions hold quantity 1 of product 1, whose stock is 10, and both commit,
\* their store calls interleaved in any order: once both commits have ended in success
\* with no stock update failed, the stock of product 1 is 8.
C1_NoLostUpdate ==
    (\A s \in Sessions : pc[s] = "idle" /\ exit[s].at = "success627" /\ errlog[s] = {})
        => db_products[1].stock = 8

\* C2: a stock update of a commit that the store has carried out leaves the product's
\* stock at its value in the store right before the update minus the line's quantity.
C2_RelativeDecrement ==
    [][\A s \in Sessions :
        updateStockReturns(s, "ok") =>
            LET item == co[s].cart[co[s].idx]
            IN  db_products'[item.id].stock = db_products[item.id].stock - item.quantity]_vars

\* what handleCheckout reports when step 1 fails
PersistenceReports ==
    {[at |-> "catch630", alert |-> <<"Checkout gagal: ", e>>] : e \in StoreErrors}

\* C3: when step 2 fails after step 1 succeeded, the transaction row of this commit is
\* in the store with no item row, no stock has changed, and what the commit reports is
\* not a report of a failed step 1.
C3_PartialCommit ==
    [][\A s \in Sessions : \A e \in StoreErrors :
        insertItemsReturns(s, e) =>
            /\ co[s].txid = Len(db_transactions')
            /\ db_transactions' = db_transactions
            /\ \A i \in 1..Len(db_transaction_items') :
                    db_transaction_items'[i].transaction_id # co[s].txid
            /\ db_products' = db_products
            /\ exit'[s] \notin PersistenceReports]_vars

\* C4: when step 1 fails the commit reports the failure and ends with that one store
\* call issued: no row of any table is inserted or changed.
C4_PersistenceError ==
    [][\A s \in Sessions : \A e \in StoreErrors :
        insertTransactionReturns(s, e) =>
            /\ exit'[s] = [at |-> "catch630", alert |-> <<"Checkout gagal: ", e>>]
            /\ pc'[s] = "idle"
            /\ calls'[s] = 1
            /\ db_transactions' = db_transactions
            /\ db_transaction_items' = db_transaction_items
            /\ db_products' = db_products]_vars

C4_Witness ==
    /\ exit[1].at = "catch630"
    /\ calls[1] = 1
    /\ db_transactions = <<>>
    /\ cart[1] # <<>>

\* the preconditions of commit; an empty "Bayar" field counts as the exact amount
PreconditionMet(s) ==
    /\ cart[s] # <<>>
    /\ customerName[s] \notin {"", " "}
    /\ ~(/\ paymentMethod[s] = "Cash"
         /\ amountPaid[s] # Blank
         /\ amountPaid[s][1] < LineSum(cart[s]))

\* C5: a commit whose precondition is not met issues no store call and changes neither
\* the cart nor the store.
C5_RejectedCommit ==
    [][\A s \in Sessions :
        (handleCheckout(s) /\ ~PreconditionMet(s)) =>
            /\ calls'[s] = 0
            /\ pc'[s] = "idle"
            /\ exit'[s].at \in {"return560", "return563", "return571"}
            /\ cart' = cart
            /\ db_transactions' = db_transactions
            /\ db_transaction_items' = db_transaction_items
            /\ db_products' = db_products]_vars

C5_Witness ==
    /\ exit[1].at = "return571"
    /\ paymentMethod[1] = "Cash"
    /\ amountPaid[1] # Blank
    /\ amountPaid[1][1] < LineSum(cart[1])
    /\ calls[1] = 0
    /\ db_transactions = <<>>

\* C6: when a commit ends in success, its transaction row holds the sum of price times
\* quantity of the cart lines as total and max(0, tendered - total) as change, and its
\* item rows are the cart lines, one row per line, with the same sum.
C6_CommittedSale ==
    [][\A s \in Sessions :
        Succeeds(s) =>
            LET t == db_transactions'[Len(db_transactions')]
                rows == SelectSeq(db_transaction_items',
                                  LAMBDA it : it.transaction_id = t.id)
                tendered == IF amountPaid[s] = Blank THEN LineSum(cart[s])
                            ELSE amountPaid[s][1]
            IN  /\ t.total_amount = LineSum(cart[s])
                /\ t.amount_paid = tendered
                /\ t.change_amount = (IF tendered > t.total_amount
                                      THEN tendered - t.total_amount ELSE 0)
                /\ Len(rows) = Len(cart[s])
                /\ \A i \in 1..Len(rows) :
                        /\ rows[i].product_id = cart[s][i].id
                        /\ rows[i].quantity = cart[s][i].quantity
                        /\ rows[i].price = cart[s][i].price
                /\ LineSum(rows) = t.total_amount]_vars

C6_Witness ==
    /\ exit[1].at = "success627"
    /\ Len(db_transactions) = 1
    /\ Len(db_transaction_items) = 2
    /\ db_transactions[1].total_amount = 14
    /\ db_transactions[1].change_amount = 16

C8_TotalIsSum == \A s \in Sessions : cartTotal(cart[s]) = LineSum(cart[s])

C8_Witness ==
    /\ event[1][1] = "updateQuantity"
    /\ Len(cart[1]) = 2
    /\ \E i \in 1..2 : cart[1][i].quantity > 1
    /\ cartTotal(cart[1]) > 12

\* C9: every line of a stock-limited product has quantity at most its stock ceiling.
C9_WithinCeiling ==
    \A s \in Sessions : \A i \in 1..Len(cart[s]) :
        cart[s][i].stock # Unlimited => cart[s][i].quantity <= cart[s][i].stock

\* C10: updateQuantity sets the line's quantity to max(1, current + delta), except that
\* a stock-limited line keeps its quantity when delta > 0 and that value is above the
\* line's stock ceiling; the quantity is never below 1.
C10_UpdateQuantity ==
    [][\A s \in Sessions :
        LET p == event'[s][2]
            d == event'[s][3]
        IN  (event'[s][1] = "updateQuantity" /\ updateQuantity(s, p, d)) =>
            /\ Len(cart'[s]) = Len(cart[s])
            /\ \A i \in 1..Len(cart[s]) :
                LET q == cart[s][i].quantity
                    target == IF q + d < 1 THEN 1 ELSE q + d
                    capped == d > 0 /\ cart[s][i].stock # Unlimited
                                    /\ target > cart[s][i].stock
                IN  /\ cart'[s][i].quantity >= 1
                    /\ cart'[s][i].quantity =
                            (IF cart[s][i].id # p \/ capped THEN q ELSE target)]_vars

C10_Witness ==
    \E i \in 1..Len(cart[1]) :
        /\ cart[1][i].stock = 1
        /\ cart[1][i].quantity = 1
        /\ event[1] = <<"updateQuantity", cart[1][i].id, 1>>

\* C11: addToCart of a stock-limited product whose stock in the local catalogue is 0 or
\* less is refused: the cart after the click is the cart before it.
C11_OutOfStock ==
    [][\A s \in Sessions :
        LET p == event'[s][2]
        IN  (/\ event'[s][1] = "addToCart"
             /\ addToCart(s, p)
             /\ products[s][p].stock # -1
             /\ products[s][p].stock <= 0) => cart' = cart]_vars

C11_Witness ==
    /\ event[1] = <<"addToCart", 1, 0>>
    /\ 1 \in DOMAIN products[1]
    /\ products[1][1].stock = 0
    /\ cart[1] # <<>>
    /\ ~InCart(cart[1], 1)

\* C12: with one session and no other writer to the store, the stock of a product that
\* was stock-limited on the shelf stays at 0 or above through any sequence of cart
\* operations and commits.
C12_StockNotNegative ==
    \A p \in Limited : db_products[p].stock >= 0

\* C13: a stock update of a commit that the store has carried out leaves every product
\* that was unlimited in the store unlimited.
C13_UnlimitedKept ==
    [][\A s \in Sessions :
        updateStockReturns(s, "ok") =>
            \A p \in DOMAIN db_products :
                db_products[p].stock = Unlimited =>
                    p \in DOMAIN db_products' /\ db_products'[p].stock = Unlimited]_vars

\* C14: a commit that ends in a refused precondition, in a failed step 1 or in a failed
\* step 2 leaves the cart as it was when the commit started, and no step of a commit
\* other than the end of a successful one empties a cart.
C14_CartKept ==
    [][\A s \in Sessions :
        /\ (handleCheckout(s) /\ exit'[s].at # "running") => cart'[s] = cart[s]
        /\ \A e \in StoreErrors :
            (insertTransactionReturns(s, e) \/ insertItemsReturns(s, e)) =>
                /\ exit'[s].at = "catch630"
                /\ cart'[s] = co[s].cart
                /\ cart'[s] = cart[s]
        /\ (cart[s] # <<>> /\ cart'[s] = <<>>) => Succeeds(s)]_vars

C14_Witness ==
    /\ exit[1].at = "catch630"
    /\ Len(db_transactions) = 1
    /\ db_transaction_items = <<>>
    /\ Len(cart[1]) = 2

\* C15: the step that ends a commit in success empties the cart and sends a re-read of
\* the catalogue and a re-read of the history.
C15_SuccessRefresh ==
    [][\A s \in Sessions :
        Succeeds(s) =>
            /\ cart'[s] = <<>>
            /\ Sent \in fetchingProducts'[s]
            /\ Sent \in fetchingHistory'[s]]_vars

C15_Witness ==
    /\ exit[1].at = "success627"
    /\ Len(db_transactions) = 1
    /\ cart[1] = <<>>
    /\ Sent \in fetchingProducts[1]
    /\ Sent \in fetchingHistory[1]
    /\ historyData[1] = <<>>

\* C16: no step updates or deletes a row of transactions or of transaction_items: after
\* every step each row that was there is there, at its place, with the same fields.
C16_AppendOnly ==
    [][/\ Len(db_transactions') >= Len(db_transactions)
       /\ \A i \in 1..Len(db_transactions) : db_transactions'[i] = db_transactions[i]
       /\ Len(db_transaction_items') >= Len(db_transaction_items)
       /\ \A i \in 1..Len(db_transaction_items) :
                db_transaction_items'[i] = db_transaction_items[i]]_vars

C16_Witness ==
    /\ Len(db_transactions) = 2
    /\ Len(db_transaction_items) = 2
    /\ db_transaction_items[1].transaction_id = 2
    /\ event[1][1] = "handleCreateProduct"
    /\ db_products_seq = MaxProducts

\* a product row is renamed, repriced or deleted in this step
ProductEdited ==
    \E p \in DOMAIN db_products :
        \/ p \notin DOMAIN db_products'
        \/ db_products'[p].name # db_products[p].name
        \/ db_products'[p].price # db_products[p].price

\* C17: a step that renames, reprices or deletes a product changes no row of
\* transaction_items (product name, unit price, quantity) and no row of transactions.
C17_SnapshotsKept ==
    [][ProductEdited =>
            /\ db_transaction_items' = db_transaction_items
            /\ db_transactions' = db_transactions]_vars

C17_Witness ==
    /\ Len(db_transactions) = 1
    /\ \E i \in 1..Len(db_transaction_items) :
        LET it == db_transaction_items[i]
        IN  /\ it.product_name = "Ceker"
            /\ it.price = SeedPrice(1)
            /\ \/ it.product_id \notin DOMAIN db_products
               \/ /\ db_products[it.product_id].name = "578"
                  /\ db_products[it.product_id].price # it.price

\* C18: once every notification has been delivered and every re-read of the catalogue has
\* completed, the local catalogue of a session is the store's current product rows.
C18_ViewCurrent ==
    \A s \in Sessions :
        (notices[s] = {} /\ fetchingProducts[s] = {}) => products[s] = db_products

\* C19: a notification of the products table starts a re-read of the catalogue and
\* changes nothing else; a notification of the transactions table starts a re-read of the
\* history and a recomputation of the analytics, and no re-read of the catalogue.
C19_Listeners ==
    [][\A s \in Sessions : \A again \in BOOLEAN :
        /\ onProductsChange(s, again) =>
            /\ Sent \in fetchingProducts'[s]
            /\ fetchingHistory' = fetchingHistory
            /\ fetchingAnalytics' = fetchingAnalytics
            /\ UNCHANGED <<dbVars, viewVars, cart, formVars, checkoutVars>>
        /\ onTransactionsChange(s, again) =>
            /\ Sent \in fetchingHistory'[s]
            /\ Asked("sales") \in fetchingAnalytics'[s]
            /\ fetchingProducts' = fetchingProducts
            /\ UNCHANGED <<dbVars, viewVars, cart, formVars, checkoutVars>>]_vars

C19_Witness ==
    /\ Len(db_transactions) = 1
    /\ notices[1] = {}
    /\ Sent \in fetchingHistory[1]
    /\ Asked("sales") \in fetchingAnalytics[1]
    /\ Sent \in fetchingProducts[1]
    /\ topProducts[1] = <<>>

\* the sum of the quantities of the rows of one product name
RECURSIVE QuantityOf(_, _, _)
QuantityOf(rows, name, i) ==
    IF i > Len(rows) THEN 0
    ELSE (IF rows[i].product_name = name THEN rows[i].quantity ELSE 0)
         + QuantityOf(rows, name, i + 1)

\* the place of the first row of one product name
FirstRow(rows, name) ==
    CHOOSE i \in 1..Len(rows) :
        /\ rows[i].product_name = name
        /\ \A j \in 1..(i - 1) : rows[j].product_name # name

\* the names of the rows by summed quantity descending, ties in the order of their first
\* row, the first 10 of them
TopByName(rows) ==
    LET names == {rows[i].product_name : i \in 1..Len(rows)}
        ahead(a, b) ==
            \/ QuantityOf(rows, a, 1) > QuantityOf(rows, b, 1)
            \/ /\ QuantityOf(rows, a, 1) = QuantityOf(rows, b, 1)
               /\ FirstRow(rows, a) < FirstRow(rows, b)
        place(n) == 1 + Cardinality({m \in names : ahead(m, n)})
        kept == IF Cardinality(names) < 10 THEN Cardinality(names) ELSE 10
    IN  [r \in 1..kept |->
            LET n == CHOOSE m \in names : place(m) = r
            IN  [name |-> n, total_quantity |-> QuantityOf(rows, n, 1)]]

\* C20: the top-products view that fetchAnalytics sets is the item rows grouped by product
\* name with summed quantities, ordered by the sum descending, ties in the order in which
\* the names first appear, cut to the first 10.
C20_TopProducts ==
    [][\A s \in Sessions :
        topProducts'[s] # topProducts[s] =>
            topProducts'[s] = TopByName(db_transaction_items)]_vars

\* the item history of the example: ("A", 3), ("B", 5), ("A", 2)
ExampleItems ==
    <<[product_name |-> "A", quantity |-> 3],
      [product_name |-> "B", quantity |-> 5],
      [product_name |-> "A", quantity |-> 2]>>

\* fetchAnalytics sets the top-products view of s from the example history in this step
TopOfExample(s) == ItemRows = ExampleItems /\ topProducts'[s] # topProducts[s]

\* C21 as stated: the top-products aggregation over the item history
\* [("A", 3), ("B", 5), ("A", 2)] yields [("B", 5), ("A", 5)].
C21_ExampleBFirst ==
    [][\A s \in Sessions :
        TopOfExample(s) =>
            topProducts'[s] = <<[name |-> "B", total_quantity |-> 5],
                                [name |-> "A", total_quantity |-> 5]>>]_vars

\* C21 as amended: the top-products aggregation over the item history
\* [("A", 3), ("B", 5), ("A", 2)] yields [("A", 5), ("B", 5)]: the sums tie and "A", the
\* name that appears first, comes first.
C21_ExampleAFirst ==
    [][\A s \in Sessions :
        TopOfExample(s) =>
            topProducts'[s] = <<[name |-> "A", total_quantity |-> 5],
                                [name |-> "B", total_quantity |-> 5]>>]_vars

C21_Witness ==
    /\ ItemRows = ExampleItems
    /\ fetchingAnalytics[1] = {}
    /\ topProducts[1] = <<[name |-> "A", total_quantity |-> 5],
                          [name |-> "B", total_quantity |-> 5]>>

\* the sum of total_amount of the transactions of one date
RECURSIVE TotalOf(_, _, _)
TotalOf(rows, date, i) ==
    IF i > Len(rows) THEN 0
    ELSE (IF DateOf(rows[i].timestamp) = date THEN rows[i].total_amount ELSE 0)
         + TotalOf(rows, date, i + 1)

\* one entry per date of the transactions with the date's total, by date ascending, the
\* 30 most recent dates when there are more
DailySeries(rows) ==
    LET dates == {DateOf(rows[i].timestamp) : i \in 1..Len(rows)}
        kept == {d \in dates : Cardinality({e \in dates : e > d}) < 30}
    IN  [r \in 1..Cardinality(kept) |->
            LET d == CHOOSE x \in kept : Cardinality({e \in kept : e < x}) = r - 1
            IN  [date |-> d, total |-> TotalOf(rows, d, 1)]]

\* C22, the front end: the daily sales series that fetchAnalytics sets has one entry per
\* distinct transaction date with the sum of total_amount of that date, by date ascending,
\* and only the 30 most recent dates when the history spans more.
C22_SeriesInApp ==
    [][\A s \in Sessions :
        fetchAnalyticsSales(s) => salesData'[s] = DailySeries(db_transactions)]_vars

\* C22: the daily sales series, as fetchAnalytics sets it and as the sales endpoint of the
\* SQLite server answers it, has one entry per distinct transaction date with the sum of
\* total_amount of that date, is ordered by date ascending, and keeps only the 30 most
\* recent dates when the history spans more than 30 dates.
C22_DailySeries ==
    [][/\ \A s \in Sessions :
            fetchAnalyticsSales(s) => salesData'[s] = DailySeries(db_transactions)
       /\ getAnalyticsSales => api'.response = DailySeries(db_transactions)]_vars

\* an operation of s that accesses the store ends in the failure e in this step
FailsWith(s, e) ==
    \/ fetchProductsFails(s, e)
    \/ fetchHistoryFails(s, e)
    \/ fetchAnalyticsFails(s, e)
    \/ insertTransactionReturns(s, e)
    \/ insertItemsReturns(s, e)
    \/ updateStockReturns(s, e)
    \/ updateProductReturns(s, e)
    \/ createProductReturns(s, e)

\* C23: a store access that fails because the credentials are missing (the first access
\* of a deployment without them) or are not accepted by the store leaves the session in
\* the configuration-error state, whatever operation made the access; a failure of another
\* kind does not put the session into that state.
C23_ConfigError ==
    [][\A s \in Sessions :
        /\ mount(s, FALSE) => configError'[s] # NoConfigError
        /\ FailsWith(s, InvalidApiKey) => configError'[s] # NoConfigError
        /\ (FailsWith(s, "Failed to fetch") /\ configError[s] = NoConfigError)
                => configError'[s] = NoConfigError]_vars

\* C24: every commit that has sent step 1 ends, in success or in the catch block of a
\* failed step 1 or step 2, with the processing flag released, provided every store call
\* returns; and the flag, once set, does not stay set forever.
C24_CommitEnds ==
    \A s \in Sessions :
        /\ (pc[s] # "idle") ~>
                (/\ pc[s] = "idle"
                 /\ ~isProcessing[s]
                 /\ exit[s].at \in {"success627", "catch630"})
        /\ isProcessing[s] ~> ~isProcessing[s]

C24_Witness ==
    /\ pc[1] = "idle"
    /\ ~isProcessing[1]
    /\ exit[1].at = "success627"
    /\ calls[1] = 4
    /\ errlog[1] = {2}

\* the number of item rows of the transaction t
ItemCount(t) ==
    Cardinality({i \in 1..Len(db_transaction_items) :
                    db_transaction_items[i].transaction_id = t})

\* C25: in the SQLite transactions endpoint the transaction insert and its item inserts
\* are all-or-nothing: whenever no request is being handled, the transactions table holds
\* exactly the rows of the requests that were answered with success, each with one item
\* row per line of its request, and no item row without its transaction.
C25_AllOrNothing ==
    api.at = "idle" =>
        /\ Len(db_transactions) = Len(api.lines)
        /\ \A t \in 1..Len(db_transactions) : ItemCount(t) = api.lines[t]
        /\ \A i \in 1..Len(db_transaction_items) :
                db_transaction_items[i].transaction_id \in 1..Len(db_transactions)

C25_Witness ==
    /\ api.at = "idle"
    /\ api.status = 500
    /\ api.i = 2
    /\ Len(api.body.items) = 2
    /\ Len(db_transactions) = 1
    /\ Len(db_transaction_items) = 1

\* the item rows a cart stands for in the transaction txid, line by line
RowsOf(items, txid) ==
    [i \in 1..Len(items) |->
        [transaction_id |-> txid, product_id |-> items[i].id, product_name |-> items[i].name,
         quantity |-> items[i].quantity, price |-> items[i].price]]

\* C26: a commit keeps the cart it started with (co.cart, taken when "Bayar Sekarang" was
\* pressed) unchanged until it ends, and the total of step 1, the item rows of step 2 and
\* the stock written in step 3 come from that cart; a cart operation made while the
\* commit is in flight changes neither that cart nor the store.
C26_FromStartCart ==
    [][\A s \in Sessions :
        /\ (handleCheckout(s) /\ pc'[s] = "insertTransaction") =>
                co'[s].cart = cart[s] /\ co'[s].total = LineSum(cart[s])
        /\ (pc[s] # "idle" /\ pc'[s] # "idle") =>
                co'[s].cart = co[s].cart /\ co'[s].total = co[s].total
        /\ (pc[s] # "idle" /\ pc'[s] = pc[s] /\ cart'[s] # cart[s]) =>
                UNCHANGED <<dbVars, co>>
        /\ insertTransactionReturns(s, "ok") =>
                db_transactions'[Len(db_transactions')].total_amount = LineSum(co[s].cart)
        /\ insertItemsReturns(s, "ok") =>
                db_transaction_items' =
                    db_transaction_items \o RowsOf(co[s].cart, Len(db_transactions))
        /\ updateStockReturns(s, "ok") =>
                LET item == co[s].cart[co[s].idx]
                IN  \A p \in DOMAIN db_products :
                        db_products'[p].stock =
                            (IF p = item.id THEN item.stock - item.quantity
                             ELSE db_products[p].stock)]_vars

C26_Witness ==
    /\ pc[1] = "updateStock"
    /\ Len(co[1].cart) = 1
    /\ Len(cart[1]) = 2
    /\ cart[1][1].quantity # co[1].cart[1].quantity
    /\ Len(db_transaction_items) = 1
    /\ db_transaction_items[1].quantity = co[1].cart[1].quantity
    /\ db_transactions[1].total_amount = LineSum(co[1].cart)

\* C27: at most one commit is in flight per cart session: while a commit is in flight the
\* processing flag is set and "Bayar Sekarang" cannot be pressed again, whatever product
\* create or update the session has submitted before or tries to submit in the meantime;
\* a product submit and a commit of one session are never in flight together.
C27_OneCommit ==
    [][\A s \in Sessions :
        /\ pc[s] # "idle" => isProcessing[s] /\ saving[s] = NoSave /\ ~handleCheckout(s)
        /\ pc'[s] # "idle" => isProcessing'[s] /\ saving'[s] = NoSave]_vars

C27_Witness ==
    /\ pc[1] = "insertItems"
    /\ isProcessing[1]
    /\ Len(db_transactions) = 1
    /\ 1 \in DOMAIN db_products
    /\ db_products[1].name = "578"
    /\ event[1][1] = "handleCheckout"

\* C28: a commit never turns a stock-limited product into an unlimited one: a stock write
\* of step 3 never takes a product whose store stock is 0 or more to the sentinel -1.
C28_NeverUnlimited ==
    [][\A s \in Sessions :
        updateStockReturns(s, "ok") =>
            \A p \in DOMAIN db_products \cap DOMAIN db_products' :
                db_products[p].stock >= 0 => db_products'[p].stock # Unlimited]_vars

\* C29: every Transaction row a commit creates has amount_paid at least total_amount and
\* change_amount equal to amount_paid minus total_amount, whatever the payment method and
\* in whatever order the method, the "Bayar" field and the cart were changed before.
C29_PaidCoversTotal ==
    \A i \in 1..Len(db_transactions) :
        /\ db_transactions[i].amount_paid >= db_transactions[i].total_amount
        /\ db_transactions[i].change_amount =
                db_transactions[i].amount_paid - db_transactions[i].total_amount

\* C30: when a commit succeeds, every line that setCart([]) removes from the cart is a line
\* of the committed transaction with the committed quantity: no line added and no quantity
\* changed while the commit was in flight is thrown away unsold.
C30_NothingUnsold ==
    [][\A s \in Sessions :
        (pc[s] # "idle" /\ pc'[s] = "idle" /\ exit'[s].at = "success627") =>
            \A i \in 1..Len(cart[s]) :
                \/ i \in DOMAIN cart'[s] /\ cart'[s][i] = cart[s][i]
                \/ \E j \in 1..Len(co[s].cart) :
                        /\ co[s].cart[j].id = cart[s][i].id
                        /\ co[s].cart[j].quantity = cart[s][i].quantity]_vars

====
